---- MODULE Spec2Model ----
(***************************************************************************)
(* MEV protection scanner: the mempool aggregation and pattern-detection   *)
(* engine.                                                                 *)
(*                                                                         *)
(*   - the transaction stream subscriber (websocket-mempool part of        *)
(*     src/src/services/dex-pools.js),                                     *)
(*   - the freshness cache (src/src/database/queries.js),                  *)
(*   - the multi-source aggregator (src/src/services/mempool-enhanced.js), *)
(*   - the pattern detectors and the risk aggregator (pattern-analyzer     *)
(*     part of src/src/services/dex-pools.js) and the scan handler         *)
(*     (src/unnamed/part_003).                                             *)
(*                                                                         *)
(* Units.  Wall-clock time is in milliseconds (Date.now()).  Gas prices    *)
(* are integers in milli-gwei (a gwei string "30.125" is 30125).           *)
(* Confidences of snapshots are in hundredths (0.98 is 98).                *)
(***************************************************************************)
EXTENDS Integers, Sequences, FiniteSets, TLC

VARIABLES
    env,                \* process.env: which API keys are configured
    budget,             \* inputs the environment still delivers: stream
                        \* events, teardown calls, clock ticks
    now,                \* Date.now()
    wsInitialized,      \* mempool-enhanced.js: let wsInitialized
    socket,             \* state of the WebSocket created last
    wsConnection,       \* TRUE iff the variable wsConnection is non-null
    reconnectAttempts,  \* let reconnectAttempts
    timers,             \* pending setTimeout(initializeInfuraWebSocket) callbacks
    polling,            \* TRUE iff the Blocknative setInterval is running
    pendingTxCache,     \* const pendingTxCache
    inflight,           \* processPendingTransaction calls awaiting getTransaction
    consecFails,        \* history: socket closes since the last successful open
    cache,              \* rows of table mempool_cache, in rowid order
    scans,              \* the getRealMempoolData calls of the behaviour
    evalIn,             \* inputs of the evaluate / scan-score computation
    evalOut             \* its outputs

vars == <<env, budget, now, wsInitialized, socket, wsConnection, reconnectAttempts,
          timers, polling, pendingTxCache, inflight, consecFails, cache,
          scans, evalIn, evalOut>>

subVars == <<wsInitialized, socket, wsConnection, reconnectAttempts, timers,
             polling, pendingTxCache, inflight, consecFails>>

aggVars == <<cache, scans>>

evalVars == <<evalIn, evalOut>>

(***************************************************************************)
(* Bounds of the model                                                     *)
(***************************************************************************)
TickMs == 2500              \* granularity of the modelled clock
MaxInputs == 2              \* environment inputs per behaviour of Spec
MaxSubInputs == 8           \* environment inputs per behaviour of SubSpec
MaxCacheTicks == 5          \* clock ticks per behaviour of CacheSpec
MaxCompeting == 2           \* competing transactions of an evaluated snapshot
MAX_CACHED_TXS == 2         \* buffer capacity (100 in the source, scaled)
WS_RETURN_LIMIT == 1        \* filtered.slice(0, 20) in the source, scaled

StartTime == 100500         \* Date.now() at process start: half past a second
HeadBlock == 1000           \* block number the upstream sources report

\* the clients; each sends one request per behaviour
Callers == {"a", "b"}

(***************************************************************************)
(* Program constants                                                       *)
(***************************************************************************)
MAX_RECONNECT_ATTEMPTS == 5
CACHE_TTL == 5000               \* websocket buffer staleness, ms
FRESH_CACHE_MS == 10000         \* hasFreshCache window
ACTIVE_LISTEN_MS == 60000       \* isActivelyListening window
MAX_AGE_SECONDS == 3            \* getCachedMempoolData(maxAgeSeconds = 3)
CLEAN_AGE_SECONDS == 10         \* cacheMempoolData eviction threshold
CACHE_DURATION == 3000          \* documented lifetime of a cache entry, ms

\* a token pair "A/B" is the tuple <<"A", "B">>
UnknownPair == <<"UNKNOWN", "UNKNOWN">>

\* Math.floor(Date.now() / 1000) and SQLite strftime('%s','now')
Seconds(ms) == ms \div 1000

\* Number.prototype.toFixed(2) on a non-negative value given in milli-gwei:
\* round half up to hundredths of a gwei
ToFixed2(x) == ((x + 5) \div 10) * 10

Min(a, b) == IF a < b THEN a ELSE b
Max(a, b) == IF a > b THEN a ELSE b

RECURSIVE SeqToSet(_)
SeqToSet(s) == IF s = <<>> THEN {} ELSE {Head(s)} \cup SeqToSet(Tail(s))

\* Array.prototype.slice(0, n)
Slice(s, n) == SubSeq(s, 1, Min(n, Len(s)))

(***************************************************************************)
(* Environment: API keys                                                   *)
(***************************************************************************)
Envs ==
    { [infura |-> FALSE, alchemy |-> FALSE, blocknative |-> FALSE],
      [infura |-> TRUE,  alchemy |-> FALSE, blocknative |-> FALSE],
      [infura |-> FALSE, alchemy |-> FALSE, blocknative |-> TRUE],
      [infura |-> TRUE,  alchemy |-> TRUE,  blocknative |-> TRUE] }

(***************************************************************************)
(* Transaction stream subscriber                                           *)
(***************************************************************************)
RouterAddr == "0x7a250d5630b4cf539739df2c5dacb4c659f2488d"
OtherAddr == "0x00000000000000000000000000000000000000aa"
NullAddr == "null"
SwapSig == "0x38ed1739"
AddLiquiditySig == "0xe8e33700"
TransferSig == "0xa9059cbb"

DEX_ROUTERS ==
    { "0x7a250d5630b4cf539739df2c5dacb4c659f2488d",
      "0xe592427a0aece92de3edee1f18e0157c05861564",
      "0xd9e1ce17f2641f24ae83637ab66a2cca9c378b9f",
      "0x1111111254fb6c44bac0bed2854e76f90643097d" }

WsSwapSignatures ==
    { "0x38ed1739", "0x7ff36ab5", "0x18cbafe5", "0x414bf389", "0xc04b8d59" }

\* Transactions the node can return for a notified hash
\* (gasPrice in milli-gwei; 0 stands for a transaction with no fee field)
LookupTxs ==
    { [to |-> OtherAddr,  data |-> SwapSig,         gasPrice |-> 30125, value |-> 100],
      [to |-> RouterAddr, data |-> AddLiquiditySig, gasPrice |-> 60000, value |-> 0],
      [to |-> NullAddr,   data |-> SwapSig,         gasPrice |-> 45000, value |-> 0],
      [to |-> OtherAddr,  data |-> TransferSig,     gasPrice |-> 45000, value |-> 7] }

\* (variant: only the recipient is looked at)
isDexTransactionRouterOnly(tx) ==
    IF tx.to = NullAddr THEN FALSE ELSE tx.to \in DEX_ROUTERS

isDexTransaction(tx) ==
    IF tx.to = NullAddr THEN FALSE
    ELSE (tx.to \in DEX_ROUTERS) \/ (tx.data \in WsSwapSignatures)

\* (variant: the pair is decoded from the call data)
extractTokenPairFromTxDecoded(tx) == <<"ETH", "USDC">>

extractTokenPairFromTx(tx) == UnknownPair

\* the record processPendingTransaction builds
ProcessedTx(tx) ==
    [ to |-> tx.to, value |-> tx.value, gasPrice |-> tx.gasPrice,
      input |-> tx.data, tokenPair |-> extractTokenPairFromTx(tx),
      isSuspicious |-> FALSE ]

\* (variant: push at the tail, then keep the first MAX_CACHED_TXS)
addToPendingCacheAtTail(c, tx, t) ==
    [ c EXCEPT !.transactions = Slice(c.transactions \o <<tx>>, MAX_CACHED_TXS),
               !.lastUpdate = t ]

addToPendingCache(c, tx, t) ==
    [ c EXCEPT !.transactions = Slice(<<tx>> \o c.transactions, MAX_CACHED_TXS),
               !.lastUpdate = t ]

\* processPendingTransaction once provider.getTransaction has answered tx
processPendingTransaction(c, tx, t) ==
    IF isDexTransaction(tx) THEN addToPendingCache(c, ProcessedTx(tx), t) ELSE c

\* (variant: the comparison admits one attempt more)
ShouldReconnectInclusive(n) == n <= MAX_RECONNECT_ATTEMPTS

\* close handler: is another reconnect scheduled?
ShouldReconnect(n) == n < MAX_RECONNECT_ATTEMPTS

\* the environment delivers one more input
Deliver == budget > 0 /\ budget' = budget - 1

InitPendingTxCache ==
    [ transactions |-> <<>>, lastUpdate |-> 0, isConnected |-> FALSE,
      source |-> "none" ]

\* (variant: the call does not test wsInitialized)
InitWebSocketMempoolServiceAgain ==
    /\ env.infura \/ env.blocknative
    /\ wsInitialized' = TRUE
    /\ IF env.infura
       THEN /\ socket' = "connecting"
            /\ wsConnection' = TRUE
            /\ UNCHANGED <<polling, pendingTxCache>>
       ELSE /\ polling' = TRUE
            /\ pendingTxCache' = [pendingTxCache EXCEPT !.source = "blocknative"]
            /\ UNCHANGED <<socket, wsConnection>>
    /\ UNCHANGED <<env, budget, now, reconnectAttempts, timers, inflight, consecFails>>
    /\ UNCHANGED aggVars /\ UNCHANGED evalVars

\* initWebSocketMempoolService -> initializeWebSocketMempool
InitWebSocketMempoolService ==
    /\ ~wsInitialized
    /\ env.infura \/ env.blocknative
    /\ wsInitialized' = TRUE
    /\ IF env.infura
       THEN /\ socket' = "connecting"
            /\ wsConnection' = TRUE
            /\ UNCHANGED <<polling, pendingTxCache>>
       ELSE /\ polling' = TRUE
            /\ pendingTxCache' = [pendingTxCache EXCEPT !.source = "blocknative"]
            /\ UNCHANGED <<socket, wsConnection>>
    /\ UNCHANGED <<env, budget, now, reconnectAttempts, timers, inflight, consecFails>>
    /\ UNCHANGED aggVars /\ UNCHANGED evalVars

\* (variant: the open handler leaves the retry counter as it is)
WsOpenKeepsCounter ==
    /\ socket = "connecting"
    /\ socket' = "open"
    /\ pendingTxCache' = [pendingTxCache EXCEPT !.isConnected = TRUE,
                                                !.source = "infura"]
    /\ consecFails' = 0
    /\ UNCHANGED <<env, budget, now, wsInitialized, wsConnection, timers, polling,
                   inflight, reconnectAttempts>>
    /\ UNCHANGED aggVars /\ UNCHANGED evalVars

\* wsConnection.on('open')
WsOpen ==
    /\ socket = "connecting"
    /\ socket' = "open"
    /\ pendingTxCache' = [pendingTxCache EXCEPT !.isConnected = TRUE,
                                                !.source = "infura"]
    /\ reconnectAttempts' = 0
    /\ consecFails' = 0
    /\ UNCHANGED <<env, budget, now, wsInitialized, wsConnection, timers, polling, inflight>>
    /\ UNCHANGED aggVars /\ UNCHANGED evalVars

\* wsConnection.on('message') with a pending-transaction notification:
\* processPendingTransaction starts and awaits provider.getTransaction
WsMessage ==
    /\ socket = "open"
    /\ Deliver
    /\ inflight' = inflight + 1
    /\ UNCHANGED <<env, now, wsInitialized, socket, wsConnection, reconnectAttempts,
                   timers, polling, pendingTxCache, consecFails>>
    /\ UNCHANGED aggVars /\ UNCHANGED evalVars

\* (variant: a failed lookup marks the subscriber disconnected)
LookupFailsDisconnects ==
    /\ inflight > 0
    /\ inflight' = inflight - 1
    /\ pendingTxCache' = [pendingTxCache EXCEPT !.isConnected = FALSE]
    /\ UNCHANGED <<env, budget, now, wsInitialized, socket, wsConnection, reconnectAttempts,
                   timers, polling, consecFails>>
    /\ UNCHANGED aggVars /\ UNCHANGED evalVars

\* processPendingTransaction resumes: the lookup failed or returned null
LookupFails ==
    /\ inflight > 0
    /\ inflight' = inflight - 1
    /\ UNCHANGED <<env, budget, now, wsInitialized, socket, wsConnection, reconnectAttempts,
                   timers, polling, pendingTxCache, consecFails>>
    /\ UNCHANGED aggVars /\ UNCHANGED evalVars

\* processPendingTransaction resumes with the transaction
LookupResolves ==
    /\ inflight > 0
    /\ \E tx \in LookupTxs :
          pendingTxCache' = processPendingTransaction(pendingTxCache, tx, now)
    /\ inflight' = inflight - 1
    /\ UNCHANGED <<env, budget, now, wsInitialized, socket, wsConnection, reconnectAttempts,
                   timers, polling, consecFails>>
    /\ UNCHANGED aggVars /\ UNCHANGED evalVars

\* wsConnection.on('error'); the ws library emits 'close' afterwards
WsError ==
    /\ socket \in {"connecting", "open"}
    /\ Deliver
    /\ socket' = "errored"
    /\ pendingTxCache' = [pendingTxCache EXCEPT !.isConnected = FALSE]
    /\ UNCHANGED <<env, now, wsInitialized, wsConnection, reconnectAttempts, timers,
                   polling, inflight, consecFails>>
    /\ UNCHANGED aggVars /\ UNCHANGED evalVars

\* wsConnection.on('close')
WsClose ==
    /\ socket \in {"open", "errored", "closing"}
    /\ IF socket = "open" THEN Deliver ELSE UNCHANGED budget
    /\ socket' = "closed"
    /\ pendingTxCache' = [pendingTxCache EXCEPT !.isConnected = FALSE,
                                                !.source = "none"]
    /\ IF ShouldReconnect(reconnectAttempts)
       THEN /\ reconnectAttempts' = reconnectAttempts + 1
            /\ timers' = timers + 1
       ELSE UNCHANGED <<reconnectAttempts, timers>>
    /\ consecFails' = consecFails + 1
    /\ UNCHANGED <<env, now, wsInitialized, wsConnection, polling, inflight>>
    /\ UNCHANGED aggVars /\ UNCHANGED evalVars

\* the reconnect timer fires: initializeInfuraWebSocket(infuraKey)
ReconnectTimer ==
    /\ timers > 0
    /\ timers' = timers - 1
    /\ socket' = "connecting"
    /\ wsConnection' = TRUE
    /\ UNCHANGED <<env, budget, now, wsInitialized, reconnectAttempts, polling,
                   pendingTxCache, inflight, consecFails>>
    /\ UNCHANGED aggVars /\ UNCHANGED evalVars

\* closeWebSocketMempool
CloseWebSocketMempool ==
    /\ wsConnection \/ pendingTxCache.isConnected \/ pendingTxCache.source # "none"
    /\ Deliver
    /\ socket' = IF wsConnection /\ socket \in {"connecting", "open", "errored"}
                 THEN "closing" ELSE socket
    /\ wsConnection' = FALSE
    /\ pendingTxCache' = [pendingTxCache EXCEPT !.isConnected = FALSE,
                                                !.source = "none"]
    /\ UNCHANGED <<env, now, wsInitialized, reconnectAttempts, timers, polling,
                   inflight, consecFails>>
    /\ UNCHANGED aggVars /\ UNCHANGED evalVars

\* pollBlocknativeMempool, response ok
PollOk ==
    /\ polling
    /\ Deliver
    /\ pendingTxCache' = [pendingTxCache EXCEPT !.isConnected = TRUE,
                                                !.source = "blocknative",
                                                !.lastUpdate = now]
    /\ UNCHANGED <<env, now, wsInitialized, socket, wsConnection, reconnectAttempts,
                   timers, polling, inflight, consecFails>>
    /\ UNCHANGED aggVars /\ UNCHANGED evalVars

\* pollBlocknativeMempool, request failed
PollFail ==
    /\ polling
    /\ pendingTxCache.isConnected
    /\ Deliver
    /\ pendingTxCache' = [pendingTxCache EXCEPT !.isConnected = FALSE]
    /\ UNCHANGED <<env, now, wsInitialized, socket, wsConnection, reconnectAttempts,
                   timers, polling, inflight, consecFails>>
    /\ UNCHANGED aggVars /\ UNCHANGED evalVars

\* the wall clock advances
Tick ==
    /\ Deliver
    /\ now' = now + TickMs
    /\ UNCHANGED <<env>> /\ UNCHANGED subVars /\ UNCHANGED aggVars
    /\ UNCHANGED evalVars

\* getWebSocketStatus
getWebSocketStatus ==
    [ isConnected |-> pendingTxCache.isConnected,
      source |-> pendingTxCache.source,
      cachedTransactions |-> Len(pendingTxCache.transactions),
      lastUpdate |-> pendingTxCache.lastUpdate,
      cacheAge |-> now - pendingTxCache.lastUpdate ]

\* getCachedPendingTransactions: is the buffer stale?
IsStale(age) == age > CACHE_TTL

\* (variant: the buffer's own array is handed out)
getCachedPendingTransactionsLive ==
    IF IsStale(now - pendingTxCache.lastUpdate)
    THEN [ transactions |-> <<>>, isRealTime |-> FALSE,
           source |-> pendingTxCache.source,
           cacheAge |-> now - pendingTxCache.lastUpdate,
           totalCached |-> 0, ownArray |-> TRUE ]
    ELSE [ transactions |-> Slice(pendingTxCache.transactions, WS_RETURN_LIMIT),
           ownArray |-> FALSE,
           isRealTime |-> pendingTxCache.isConnected,
           source |-> pendingTxCache.source,
           cacheAge |-> now - pendingTxCache.lastUpdate,
           totalCached |-> Len(pendingTxCache.transactions) ]

\* getCachedPendingTransactions.  ownArray: the array returned is a new one
\* (a literal, or the result of filter() and slice()), no reference to the
\* buffer's array
getCachedPendingTransactions ==
    IF IsStale(now - pendingTxCache.lastUpdate)
    THEN [ transactions |-> <<>>, isRealTime |-> FALSE,
           source |-> pendingTxCache.source,
           cacheAge |-> now - pendingTxCache.lastUpdate,
           totalCached |-> 0, ownArray |-> TRUE ]
    ELSE [ transactions |-> Slice(pendingTxCache.transactions, WS_RETURN_LIMIT),
           ownArray |-> TRUE,
           isRealTime |-> pendingTxCache.isConnected,
           source |-> pendingTxCache.source,
           cacheAge |-> now - pendingTxCache.lastUpdate,
           totalCached |-> Len(pendingTxCache.transactions) ]

(***************************************************************************)
(* Freshness cache: table mempool_cache                                    *)
(***************************************************************************)
SnapshotKeys ==
    << "tokenPair", "currentBlock", "blockTimeEstimate", "gasPercentiles",
       "competingTxs", "pendingTxCount", "avgBlockTxCount", "dataSource",
       "confidence", "isRealTime", "timestamp" >>

\* JSON.stringify(data): the properties of the object, in order
JsonStringify(data) ==
    LET present(k) == k \in DOMAIN data
        keys == SelectSeq(SnapshotKeys, present)
    IN  [i \in 1..Len(keys) |-> <<keys[i], data[keys[i]]>>]

\* JSON.parse(text)
JsonParse(text) ==
    [k \in {text[i][1] : i \in 1..Len(text)} |->
        text[CHOOSE i \in 1..Len(text) : text[i][1] = k][2]]

\* (variant: a row cached exactly maxAgeSeconds ago still matches)
CacheRowMatchesInclusive(row, tokenPair, since) ==
    row.token_pair = tokenPair /\ row.cached_at >= since

\* WHERE token_pair = ? AND cached_at > ?
CacheRowMatches(row, tokenPair, since) ==
    row.token_pair = tokenPair /\ row.cached_at > since

\* getCachedMempoolData: the rows the query can return.  ORDER BY cached_at
\* DESC LIMIT 1 leaves the choice among rows of equal cached_at to SQLite.
CachedRows(tokenPair) ==
    LET since == Seconds(now) - MAX_AGE_SECONDS
        hits == {i \in 1..Len(cache) : CacheRowMatches(cache[i], tokenPair, since)}
    IN  {i \in hits : \A j \in hits : cache[j].cached_at <= cache[i].cached_at}

\* (variant: the DELETE matches no row)
CacheRowExpiredNever(row, limit) == FALSE

\* DELETE FROM mempool_cache WHERE cached_at < ?
CacheRowExpired(row, limit) == row.cached_at < limit

\* cacheMempoolData
cacheMempoolData(rows, tokenPair, data) ==
    LET limit == Seconds(now) - CLEAN_AGE_SECONDS
        keep(row) == ~CacheRowExpired(row, limit)
    IN  Append(SelectSeq(rows, keep),
               [ token_pair |-> tokenPair, data |-> JsonStringify(data),
                 cached_at |-> Seconds(now) ])

(***************************************************************************)
(* Gas percentiles                                                         *)
(***************************************************************************)
DefaultPercentiles == [p25 |-> 20000, p50 |-> 35000, p75 |-> 50000, p90 |-> 80000]

\* Array.prototype.sort((a, b) => a - b)
\* (variant: the sample is indexed in arrival order, without the sort)
SortAscUnsorted(s) == s

SortAsc(s) == SortSeq(s, LAMBDA a, b : a < b)

\* sorted[Math.floor(sorted.length * pct / 100)]
AtPercentile(sorted, pct) == sorted[((Len(sorted) * pct) \div 100) + 1]

\* (x * num / den).toFixed(2), x in milli-gwei
MulFixed2(x, num, den) == ((2 * x * num + 10 * den) \div (20 * den)) * 10

\* fetchFromWebSocketCache: percentiles of the buffered gas prices
WsGasPercentiles(txs) ==
    LET prices == [i \in 1..Len(txs) |-> txs[i].gasPrice]
        positive(gp) == gp > 0
        gasPrices == SortAsc(SelectSeq(prices, positive))
    IN  IF Len(gasPrices) > 0
        THEN [ p25 |-> ToFixed2(AtPercentile(gasPrices, 25)),
               p50 |-> ToFixed2(AtPercentile(gasPrices, 50)),
               p75 |-> ToFixed2(AtPercentile(gasPrices, 75)),
               p90 |-> ToFixed2(AtPercentile(gasPrices, 90)) ]
        ELSE DefaultPercentiles

\* getGasPricePercentiles: fees are the base fees of the recent blocks that
\* carry one (empty when the block queries fail)
getGasPricePercentiles(fees) ==
    LET baseFees == SortAsc(fees)
    IN  IF Len(baseFees) = 0 THEN DefaultPercentiles
        ELSE [ p25 |-> MulFixed2(AtPercentile(baseFees, 25), 11, 10),
               p50 |-> MulFixed2(AtPercentile(baseFees, 50), 5, 4),
               p75 |-> MulFixed2(AtPercentile(baseFees, 75), 3, 2),
               p90 |-> MulFixed2(AtPercentile(baseFees, 90), 2, 1) ]

\* fetchFromBlocknative: estimatedPrices[i]?.price?.toString() || dflt
BlocknativePrice(prices, i, dflt) == IF Len(prices) >= i THEN prices[i] ELSE dflt

BlocknativePercentiles(prices) ==
    [ p25 |-> BlocknativePrice(prices, 1, DefaultPercentiles.p25),
      p50 |-> BlocknativePrice(prices, 2, DefaultPercentiles.p50),
      p75 |-> BlocknativePrice(prices, 3, DefaultPercentiles.p75),
      p90 |-> BlocknativePrice(prices, 5, DefaultPercentiles.p90) ]

(***************************************************************************)
(* Upstream responses                                                      *)
(***************************************************************************)
\* Blocknative blockprices: estimatedPrices[].price (listed by decreasing
\* confidence level 99, 95, 90, 80, 70) and estimatedTransactionCount
BlocknativeResponses ==
    { [ prices |-> <<52000, 47000, 45000, 43000, 41000>>, txCount |-> 250 ] }

\* eth_getBlockByNumber('pending', true): raw transactions
RpcSwapTx == [input |-> SwapSig, gasPrice |-> 40000, value |-> 1000, to |-> RouterAddr]
RpcOtherTx == [input |-> TransferSig, gasPrice |-> 90000, value |-> 7, to |-> OtherAddr]

\* what the node answers to fetchFromEthereumRPC: the pending block and
\* the base fees of the last five blocks
RpcResponses ==
    { [ pending |-> <<RpcSwapTx, RpcOtherTx>>, fees |-> <<30000, 10000, 20125>> ] }

\* what the node answers to analyzeRecentBlocks
BlockResponses ==
    { [ fees |-> <<30000, 10000, 20125>>, avgTxCount |-> 230 ] }

(***************************************************************************)
(* Multi-source aggregator                                                 *)
(***************************************************************************)
RpcSwapSignatures ==
    { "0x38ed1739", "0x8803dbee", "0x7ff36ab5", "0x18cbafe5", "0xfb3bdb41",
      "0x4a25d94a", "0x414bf389", "0xc04b8d59", "0xdb3e2198", "0x09b81346" }

isLikelySwapTransaction(tx) == tx.input \in RpcSwapSignatures

extractTokenPair(tx) == UnknownPair

isRelatedPair(pair1, pair2) == \E i \in 1..Len(pair1) : pair1[i] \in SeqToSet(pair2)

\* analyzePendingTransactions, for a request that carries no gas price
analyzePendingTransactions(pendingTxs, tokenPair) ==
    LET competes(tx) ==
            /\ isLikelySwapTransaction(tx)
            /\ \/ extractTokenPair(tx) = tokenPair
               \/ isRelatedPair(extractTokenPair(tx), tokenPair)
        sel == SelectSeq(pendingTxs, competes)
    IN  [i \in 1..Len(sel) |->
            [ to |-> sel[i].to, value |-> sel[i].value,
              gasPrice |-> sel[i].gasPrice, input |-> sel[i].input,
              tokenPair |-> extractTokenPair(sel[i]), isSuspicious |-> FALSE ]]

RealMempoolLabel(source) ==
    IF source = "infura" THEN "real-mempool-infura"
    ELSE IF source = "blocknative" THEN "real-mempool-blocknative"
    ELSE "real-mempool-none"

\* fetchFromWebSocketCache; NoSnapshot is null
NoSnapshot == [dataSource |-> "null"]

\* (variant: pendingTxCount is the number of records returned)
fetchFromWebSocketCacheCountsReturned(tokenPair) ==
    LET wsData == getCachedPendingTransactions
    IN  IF ~wsData.isRealTime THEN NoSnapshot
        ELSE [ tokenPair |-> tokenPair,
               currentBlock |-> 0,
               blockTimeEstimate |-> 12,
               gasPercentiles |-> WsGasPercentiles(wsData.transactions),
               competingTxs |-> wsData.transactions,
               ownArray |-> wsData.ownArray,
               pendingTxCount |-> Len(wsData.transactions),
               dataSource |-> RealMempoolLabel(wsData.source),
               confidence |-> 98,
               isRealTime |-> TRUE,
               timestamp |-> Seconds(now) ]

fetchFromWebSocketCache(tokenPair) ==
    LET wsData == getCachedPendingTransactions
    IN  IF ~wsData.isRealTime THEN NoSnapshot
        ELSE [ tokenPair |-> tokenPair,
               currentBlock |-> 0,
               blockTimeEstimate |-> 12,
               gasPercentiles |-> WsGasPercentiles(wsData.transactions),
               \* the array of wsData itself
               competingTxs |-> wsData.transactions,
               ownArray |-> wsData.ownArray,
               pendingTxCount |-> wsData.totalCached,
               dataSource |-> RealMempoolLabel(wsData.source),
               confidence |-> 98,
               isRealTime |-> TRUE,
               timestamp |-> Seconds(now) ]

\* fetchFromBlocknative, on a successful response
BlocknativeSnapshot(tokenPair, resp) ==
    [ tokenPair |-> tokenPair,
      currentBlock |-> HeadBlock,
      blockTimeEstimate |-> IF resp.txCount > 200 THEN 13 ELSE 12,
      gasPercentiles |-> BlocknativePercentiles(resp.prices),
      competingTxs |-> <<>>,
      dataSource |-> "blocknative",
      confidence |-> 95,
      timestamp |-> Seconds(now) ]

\* fetchFromEthereumRPC, when getBlockNumber and getBlock succeed
RpcSnapshot(tokenPair, resp) ==
    [ tokenPair |-> tokenPair,
      currentBlock |-> HeadBlock,
      blockTimeEstimate |-> 12,
      gasPercentiles |-> getGasPricePercentiles(resp.fees),
      competingTxs |-> analyzePendingTransactions(resp.pending, tokenPair),
      pendingTxCount |-> Len(resp.pending),
      dataSource |-> "ethereum-rpc",
      confidence |-> 85,
      timestamp |-> Seconds(now) ]

\* (variant: the confidence of fetchFromEthereumRPC is pasted here)
BlockAnalysisSnapshotAsRpc(tokenPair, resp) ==
    [ tokenPair |-> tokenPair,
      currentBlock |-> HeadBlock,
      blockTimeEstimate |-> IF resp.avgTxCount > 200 THEN 13 ELSE 12,
      gasPercentiles |-> getGasPricePercentiles(resp.fees),
      competingTxs |-> <<>>,
      avgBlockTxCount |-> resp.avgTxCount,
      dataSource |-> "block-analysis",
      confidence |-> 85,
      timestamp |-> Seconds(now) ]

\* analyzeRecentBlocks, when the block queries succeed
BlockAnalysisSnapshot(tokenPair, resp) ==
    [ tokenPair |-> tokenPair,
      currentBlock |-> HeadBlock,
      blockTimeEstimate |-> IF resp.avgTxCount > 200 THEN 13 ELSE 12,
      gasPercentiles |-> getGasPricePercentiles(resp.fees),
      competingTxs |-> <<>>,
      avgBlockTxCount |-> resp.avgTxCount,
      dataSource |-> "block-analysis",
      confidence |-> 70,
      timestamp |-> Seconds(now) ]

\* getSimulatedMempoolData
getSimulatedMempoolData(tokenPair) ==
    [ tokenPair |-> tokenPair,
      currentBlock |-> 0,
      blockTimeEstimate |-> 12,
      gasPercentiles |-> DefaultPercentiles,
      competingTxs |-> <<>>,
      dataSource |-> "simulated",
      confidence |-> 50,
      timestamp |-> Seconds(now) ]

\* token pairs the requests ask about
TokenPairs == { <<"ETH", "USDC">>, <<"UNKNOWN", "ETH">> }

IdleScan ==
    [ pc |-> "idle", tokenPair |-> <<>>, tried |-> <<>>, result |-> NoSnapshot,
      hit |-> FALSE, gate |-> FALSE, wsUp |-> FALSE, active |-> FALSE,
      prior |-> {} ]

\* getRealMempoolData: is the WebSocket strategy tried?
WsGate(wsStatus) ==
    /\ wsStatus.isConnected
    /\ \/ wsStatus.cachedTransactions > 0 /\ wsStatus.cacheAge < FRESH_CACHE_MS
       \/ wsStatus.lastUpdate = 0
       \/ wsStatus.cacheAge < ACTIVE_LISTEN_MS

\* (variant: the RPC pending-block strategy is passed over)
StrategyAfterSkipsRpc(st) ==
    CASE st = "ws" -> IF env.blocknative THEN "blocknative" ELSE "rpc"
      [] st = "blocknative" -> "blocks"
      [] st = "rpc" -> "blocks"

\* getRealMempoolData: the strategy awaited after strategy st returned null
StrategyAfter(st) ==
    CASE st = "ws" -> IF env.blocknative THEN "blocknative" ELSE "rpc"
      [] st = "blocknative" -> "rpc"
      [] st = "rpc" -> "blocks"

\* getProvider: with an Alchemy or Infura key the provider object is built
\* without a request; otherwise the public endpoints are probed
HasRpcKey == env.alchemy \/ env.infura

\* a strategy produced data: cacheMempoolData(tokenPair, data); return data
ScanReturns(s, data, triedNow) ==
    /\ cache' = cacheMempoolData(cache, scans[s].tokenPair, data)
    /\ scans' = [scans EXCEPT ![s].pc = "done", ![s].result = data,
                              ![s].tried = triedNow]

\* getRealMempoolData up to its first network request: cache lookup, then
\* the WebSocket buffer
StartScan(s) ==
    /\ scans[s].pc = "idle"
    /\ \E tokenPair \in TokenPairs :
         LET rows == CachedRows(tokenPair)
             wsStatus == getWebSocketStatus
             started == [ IdleScan EXCEPT
                            !.tokenPair = tokenPair,
                            !.prior = {r \in Callers : scans[r].pc = "done"},
                            !.gate = WsGate(wsStatus),
                            !.wsUp = /\ pendingTxCache.isConnected
                                     /\ now - pendingTxCache.lastUpdate <= CACHE_TTL,
                            !.active =
                                /\ pendingTxCache.isConnected
                                /\ \/ pendingTxCache.lastUpdate = 0
                                   \/ now - pendingTxCache.lastUpdate <= CACHE_TTL ]
         IN  IF rows # {}
             THEN /\ \E i \in rows :
                       scans' = [scans EXCEPT ![s] =
                                   [ started EXCEPT !.pc = "done", !.hit = TRUE,
                                       !.result = JsonParse(cache[i].data) ]]
                  /\ UNCHANGED cache
             ELSE IF WsGate(wsStatus)
             THEN LET mempoolData == fetchFromWebSocketCache(tokenPair)
                  IN  IF mempoolData # NoSnapshot
                      THEN /\ cache' = cacheMempoolData(cache, tokenPair, mempoolData)
                           /\ scans' = [scans EXCEPT ![s] =
                                   [ started EXCEPT !.pc = "done",
                                       !.result = mempoolData,
                                       !.tried = << <<"ws", "data">> >> ]]
                      ELSE /\ scans' = [scans EXCEPT ![s] =
                                   [ started EXCEPT !.pc = StrategyAfter("ws"),
                                       !.tried = << <<"ws", "null">> >> ]]
                           /\ UNCHANGED cache
             ELSE /\ scans' = [scans EXCEPT ![s] =
                                   [ started EXCEPT !.pc = StrategyAfter("ws") ]]
                  /\ UNCHANGED cache
    /\ UNCHANGED <<env, budget, now>> /\ UNCHANGED subVars /\ UNCHANGED evalVars

\* fetchFromBlocknative: the response is not ok, carries no blockPrices, or
\* the request fails; the catch returns null
BlocknativeFails(s) ==
    /\ scans[s].pc = "blocknative"
    /\ scans' = [scans EXCEPT ![s].pc = StrategyAfter("blocknative"),
                              ![s].tried = Append(@, <<"blocknative", "null">>)]
    /\ UNCHANGED <<env, budget, now, cache>> /\ UNCHANGED subVars
    /\ UNCHANGED evalVars

\* (variant: the provider's answer is also taken as a sign of life of the
\* stream)
BlocknativeSucceedsMarksFresh(s) ==
    /\ scans[s].pc = "blocknative"
    /\ \E resp \in BlocknativeResponses :
          ScanReturns(s, BlocknativeSnapshot(scans[s].tokenPair, resp),
                      Append(scans[s].tried, <<"blocknative", "data">>))
    /\ UNCHANGED <<env, budget, now>> /\ UNCHANGED <<wsInitialized, socket, wsConnection, reconnectAttempts,
                   timers, polling, inflight, consecFails>>
    /\ pendingTxCache' = [pendingTxCache EXCEPT !.lastUpdate = now] /\ UNCHANGED evalVars

\* fetchFromBlocknative: a block price response arrives
BlocknativeSucceeds(s) ==
    /\ scans[s].pc = "blocknative"
    /\ \E resp \in BlocknativeResponses :
          ScanReturns(s, BlocknativeSnapshot(scans[s].tokenPair, resp),
                      Append(scans[s].tried, <<"blocknative", "data">>))
    /\ UNCHANGED <<env, budget, now>> /\ UNCHANGED subVars /\ UNCHANGED evalVars

\* fetchFromBlocknative: the provider accepts the request and never answers.
\* fetch() is called without a timeout or abort signal, so the await never
\* settles.
BlocknativeStalls(s) ==
    /\ scans[s].pc = "blocknative"
    /\ scans' = [scans EXCEPT ![s].pc = "stalled",
                              ![s].tried = Append(@, <<"blocknative", "pending">>)]
    /\ UNCHANGED <<env, budget, now, cache>> /\ UNCHANGED subVars
    /\ UNCHANGED evalVars

\* fetchFromEthereumRPC / analyzeRecentBlocks: getProvider() is awaited
\* before the try block; with no key and no reachable public endpoint it
\* throws and the rejection leaves getRealMempoolData
ProviderThrows(s) ==
    /\ scans[s].pc \in {"rpc", "blocks"}
    /\ ~HasRpcKey
    /\ scans' = [scans EXCEPT ![s].pc = "raised",
                              ![s].tried = Append(@, <<scans[s].pc, "raised">>)]
    /\ UNCHANGED <<env, budget, now, cache>> /\ UNCHANGED subVars
    /\ UNCHANGED evalVars

\* fetchFromEthereumRPC: getBlockNumber or getBlock throws; the catch
\* returns null
RpcFails(s) ==
    /\ scans[s].pc = "rpc"
    /\ scans' = [scans EXCEPT ![s].pc = StrategyAfter("rpc"),
                              ![s].tried = Append(@, <<"rpc", "null">>)]
    /\ UNCHANGED <<env, budget, now, cache>> /\ UNCHANGED subVars
    /\ UNCHANGED evalVars

\* fetchFromEthereumRPC returns a snapshot
RpcSucceeds(s) ==
    /\ scans[s].pc = "rpc"
    /\ \E resp \in RpcResponses :
          ScanReturns(s, RpcSnapshot(scans[s].tokenPair, resp),
                      Append(scans[s].tried, <<"rpc", "data">>))
    /\ UNCHANGED <<env, budget, now>> /\ UNCHANGED subVars /\ UNCHANGED evalVars

\* analyzeRecentBlocks returns a block-analysis snapshot
BlocksSucceed(s) ==
    /\ scans[s].pc = "blocks"
    /\ \E resp \in BlockResponses :
          ScanReturns(s, BlockAnalysisSnapshot(scans[s].tokenPair, resp),
                      Append(scans[s].tried, <<"blocks", "data">>))
    /\ UNCHANGED <<env, budget, now>> /\ UNCHANGED subVars /\ UNCHANGED evalVars

\* analyzeRecentBlocks: a block query throws; the catch returns
\* getSimulatedMempoolData
BlocksFail(s) ==
    /\ scans[s].pc = "blocks"
    /\ ScanReturns(s, getSimulatedMempoolData(scans[s].tokenPair),
                   scans[s].tried \o << <<"blocks", "null">>, <<"baseline", "data">> >>)
    /\ UNCHANGED <<env, budget, now>> /\ UNCHANGED subVars /\ UNCHANGED evalVars

(***************************************************************************)
(* Pattern analyzer (analyzeMEVPatterns) and the scan handler's risk score *)
(*                                                                         *)
(* A detector result is [detected, conf, den]: the confidence is the       *)
(* rational conf / den.  Gas prices are integers (milli-gwei), so every    *)
(* comparison and every confidence is computed exactly.                    *)
(***************************************************************************)
NoEvaluation == [done |-> FALSE]

\* a missing tokenPair (undefined) is the empty tuple; a tokenPair that is
\* truthy and no string has one component; a string "A/B" has two
NonStringPair == <<"#object">>

\* an input field that is truthy and no string
NonStringInput == "#object"

\* pair1.split('/') throws a TypeError
SplitThrows(pair) == Len(pair) = 1

RECURSIVE SumGas(_)
SumGas(txs) == IF txs = <<>> THEN 0 ELSE Head(txs).gasPrice + SumGas(Tail(txs))

RECURSIVE MaxGas(_)
MaxGas(txs) ==
    IF Len(txs) = 1 THEN txs[1].gasPrice
    ELSE Max(Head(txs).gasPrice, MaxGas(Tail(txs)))

\* parseFloat(userTx.gasPrice || mempoolData.gasPercentiles.p50)
UserGasPrice(mempoolData, userTx) ==
    IF userTx.hasGasPrice THEN userTx.gasPrice ELSE mempoolData.gasPercentiles.p50

\* `${userTx.token_in}/${userTx.token_out}`
UserPair(userTx) == <<userTx.token_in, userTx.token_out>>

RECURSIVE GCD(_, _)
GCD(a, b) == IF b = 0 THEN a ELSE GCD(b, a % b)

LCM(a, b) == (a \div GCD(a, b)) * b

\* the rational num / den in lowest terms
Ratio(num, den) ==
    [conf |-> num \div GCD(num, den), den |-> den \div GCD(num, den)]

NotDetected == [detected |-> FALSE, conf |-> 0, den |-> 1]

\* (variant: sharing one token does not relate two pairs)
isSameOrReversedPair(pair1, pair2) ==
    pair1 = pair2 \/ (pair1[1] = pair2[2] /\ pair1[2] = pair2[1])

isSameOrRelatedPair(pair1, pair2) ==
    \* if (!pair1 || !pair2) return false
    IF pair1 = <<>> \/ pair2 = <<>> THEN FALSE
    ELSE IF pair1 = pair2 THEN TRUE
    ELSE IF pair1[1] = pair2[2] /\ pair1[2] = pair2[1] THEN TRUE
    ELSE \E i \in 1..Len(pair1) : pair1[i] \in SeqToSet(pair2)

isOppositeDirection(tx, userTx) ==
    \* if (!tx.tokenPair) return false
    IF tx.tokenPair = <<>> THEN FALSE
    ELSE tx.tokenPair[1] = userTx.token_out /\ tx.tokenPair[2] = userTx.token_in

\* avgFrontGas > userGasPrice && userGasPrice > avgBackGas
checkGasOrdering(frontRunners, backRunners, u) ==
    IF Len(frontRunners) = 0 \/ Len(backRunners) = 0 THEN FALSE
    ELSE /\ SumGas(frontRunners) > u * Len(frontRunners)
         /\ u * Len(backRunners) > SumGas(backRunners)

\* (variant: the lower limit of the bonus is that of the filter, 0.8)
checkGasPositioningWide(backRunners, u) ==
    IF Len(backRunners) = 0 THEN FALSE
    ELSE /\ SumGas(backRunners) < u * Len(backRunners)
         /\ 5 * SumGas(backRunners) > 4 * u * Len(backRunners)

\* avgBackGas < userGasPrice && avgBackGas > userGasPrice * 0.85
checkGasPositioning(backRunners, u) ==
    IF Len(backRunners) = 0 THEN FALSE
    ELSE /\ SumGas(backRunners) < u * Len(backRunners)
         /\ 20 * SumGas(backRunners) > 17 * u * Len(backRunners)

detectSandwichPattern(mempoolData, userTx) ==
    IF Len(mempoolData.competingTxs) = 0 THEN NotDetected
    ELSE
      LET u == UserGasPrice(mempoolData, userTx)
          front(tx) == /\ 20 * tx.gasPrice > 21 * u
                       /\ isSameOrRelatedPair(tx.tokenPair, UserPair(userTx))
          back(tx) == /\ 20 * tx.gasPrice < 19 * u
                      /\ isSameOrRelatedPair(tx.tokenPair, UserPair(userTx))
                      /\ isOppositeDirection(tx, userTx)
          frontRunners == SelectSeq(mempoolData.competingTxs, front)
          backRunners == SelectSeq(mempoolData.competingTxs, back)
          detected == Len(frontRunners) > 0 /\ Len(backRunners) > 0
          thousandths ==
              Min(600 + 100 * Len(frontRunners) + 100 * Len(backRunners)
                    + (IF checkGasOrdering(frontRunners, backRunners, u)
                       THEN 200 ELSE 0),
                  1000)
      IN  [ detected |-> detected,
            conf |-> IF detected THEN thousandths ELSE 0,
            den |-> 1000,
            frontRunners |-> frontRunners,
            backRunners |-> backRunners ]

\* (variant: the test for an empty competitor list is dropped and a
\* competitor count of zero counts as a detection)
detectFrontrunPatternNoGuard(mempoolData, userTx) ==
    LET u == UserGasPrice(mempoolData, userTx)
        competes(tx) == /\ tx.gasPrice > u
                        /\ isSameOrRelatedPair(tx.tokenPair, UserPair(userTx))
        competitors == SelectSeq(mempoolData.competingTxs, competes)
    IN  [ detected |-> Len(competitors) >= 0,
          conf |-> Min(500 + 100 * Len(competitors), 1000),
          den |-> 1000 ]

\* (variant: only competitors paying more than 10% above the caller count)
detectFrontrunPatternPremium(mempoolData, userTx) ==
    IF Len(mempoolData.competingTxs) = 0 THEN NotDetected
    ELSE
      LET u == UserGasPrice(mempoolData, userTx)
          competes(tx) == /\ 10 * tx.gasPrice > 11 * u
                          /\ isSameOrRelatedPair(tx.tokenPair, UserPair(userTx))
          competitors == SelectSeq(mempoolData.competingTxs, competes)
          detected == Len(competitors) > 0
      IN  [ detected |-> detected,
            conf |-> IF detected THEN Min(500 + 100 * Len(competitors), 1000)
                     ELSE 0,
            den |-> IF detected THEN 1000 ELSE 1 ]

detectFrontrunPattern(mempoolData, userTx) ==
    IF Len(mempoolData.competingTxs) = 0 THEN NotDetected
    ELSE
      LET u == UserGasPrice(mempoolData, userTx)
          competes(tx) == /\ tx.gasPrice > u
                          /\ isSameOrRelatedPair(tx.tokenPair, UserPair(userTx))
          competitors == SelectSeq(mempoolData.competingTxs, competes)
          detected == Len(competitors) > 0
          \* 0.5 + n * 0.1 + maxGasDiff * 0.3, capped at 1.0; with u = 0
          \* maxGasDiff is Infinity and the cap applies
          confidence ==
              IF u = 0 THEN Ratio(1, 1)
              ELSE Ratio(Min(500 * u + 100 * u * Len(competitors)
                               + 300 * (MaxGas(competitors) - u),
                             1000 * u),
                         1000 * u)
      IN  [ detected |-> detected,
            conf |-> IF detected THEN confidence.conf ELSE 0,
            den |-> IF detected THEN confidence.den ELSE 1 ]

detectBackrunPattern(mempoolData, userTx) ==
    IF Len(mempoolData.competingTxs) = 0 THEN NotDetected
    ELSE
      LET u == UserGasPrice(mempoolData, userTx)
          back(tx) == /\ tx.gasPrice < u
                      /\ 5 * tx.gasPrice > 4 * u
                      /\ isSameOrRelatedPair(tx.tokenPair, UserPair(userTx))
                      /\ isOppositeDirection(tx, userTx)
          backRunners == SelectSeq(mempoolData.competingTxs, back)
          detected == Len(backRunners) > 0
          thousandths ==
              Min(400 + 150 * Len(backRunners)
                    + (IF checkGasPositioning(backRunners, u) THEN 200 ELSE 0),
                  1000)
      IN  [ detected |-> detected,
            conf |-> IF detected THEN thousandths ELSE 0,
            den |-> 1000 ]

\* (variant: a related pair is taken for the same pair)
detectCopycatPatternRelatedPair(mempoolData, userTx) ==
    LET u == UserGasPrice(mempoolData, userTx)
        userAmount == userTx.amount_in
        diff(tx) == IF tx.value > userAmount THEN tx.value - userAmount
                    ELSE userAmount - tx.value
        copies(tx) == /\ isSameOrRelatedPair(tx.tokenPair, UserPair(userTx))
                      /\ 10 * diff(tx) < userAmount
                      /\ tx.gasPrice > u
        copycats == SelectSeq(mempoolData.competingTxs, copies)
    IN  [ detected |-> Len(copycats) > 0,
          conf |-> IF Len(copycats) > 0
                   THEN Min(700 + 100 * Len(copycats), 1000) ELSE 0,
          den |-> 1000,
          count |-> Len(copycats) ]

detectCopycatPattern(mempoolData, userTx) ==
    IF Len(mempoolData.competingTxs) = 0
    THEN [detected |-> FALSE, conf |-> 0, den |-> 1, count |-> 0]
    ELSE
      LET u == UserGasPrice(mempoolData, userTx)
          userAmount == userTx.amount_in
          diff(tx) == IF tx.value > userAmount THEN tx.value - userAmount
                      ELSE userAmount - tx.value
          copies(tx) == /\ tx.tokenPair = UserPair(userTx)
                        /\ 10 * diff(tx) < userAmount
                        /\ tx.gasPrice > u
          copycats == SelectSeq(mempoolData.competingTxs, copies)
          detected == Len(copycats) > 0
          thousandths == Min(700 + 100 * Len(copycats), 1000)
      IN  [ detected |-> detected,
            conf |-> IF detected THEN thousandths ELSE 0,
            den |-> 1000,
            count |-> Len(copycats) ]

LiquiditySignatures == {"0xe8e33700", "0xf305d719"}

detectJITLiquidityPattern(mempoolData, userTx) ==
    IF Len(mempoolData.competingTxs) = 0 THEN NotDetected
    ELSE
      LET adds(tx) == tx.input \in LiquiditySignatures
          liquidityTxs == SelectSeq(mempoolData.competingTxs, adds)
          detected == Len(liquidityTxs) > 0
      IN  [ detected |-> detected,
            conf |-> IF detected THEN 600 ELSE 0,
            den |-> 1000 ]

\* analyzeMEVPatterns throws: a filter callback reaches tokenPair.split or
\* input.startsWith on a value that is no string.  isSameOrRelatedPair is
\* called only after the gas tests of the filter have passed.
AnalysisThrows(mempoolData, userTx) ==
    LET u == UserGasPrice(mempoolData, userTx)
        txs == mempoolData.competingTxs
        reached(tx) ==
            \/ 20 * tx.gasPrice > 21 * u            \* sandwich, front
            \/ 20 * tx.gasPrice < 19 * u            \* sandwich, back
            \/ tx.gasPrice > u                      \* frontrun
            \/ tx.gasPrice < u /\ 5 * tx.gasPrice > 4 * u   \* backrun
    IN  \E i \in 1..Len(txs) :
            \/ SplitThrows(txs[i].tokenPair) /\ reached(txs[i])
            \/ txs[i].input = NonStringInput

PatternNames == {"sandwich", "frontrun", "backrun", "copycat", "jit"}

\* (variant: the weights of copycat and backrun are exchanged)
WeightExchanged(pattern) ==
    CASE pattern = "sandwich" -> 40
      [] pattern = "frontrun" -> 30
      [] pattern = "copycat" -> 10
      [] pattern = "backrun" -> 15
      [] pattern = "jit" -> 5

\* percent weights of calculateAggregateRisk
Weight(pattern) ==
    CASE pattern = "sandwich" -> 40
      [] pattern = "frontrun" -> 30
      [] pattern = "copycat" -> 15
      [] pattern = "backrun" -> 10
      [] pattern = "jit" -> 5

\* Math.round of the non-negative rational num / den
RoundRatio(num, den) == (2 * num + den) \div (2 * den)

\* calculateAggregateRisk: Math.min(Math.round(totalRisk), 100)
calculateAggregateRisk(patterns) ==
    LET counted(n) == patterns[n].detected /\ patterns[n].conf # 0
        \* the common denominator of the five confidences
        den == LCM(LCM(LCM(patterns["sandwich"].den, patterns["frontrun"].den),
                       LCM(patterns["backrun"].den, patterns["copycat"].den)),
                   patterns["jit"].den)
        term(n) == IF counted(n)
                   THEN patterns[n].conf * (den \div patterns[n].den) * Weight(n)
                   ELSE 0
        total == term("sandwich") + term("frontrun") + term("backrun")
                   + term("copycat") + term("jit")
    IN  Min(RoundRatio(total, den), 100)

analyzeMEVPatterns(mempoolData, userTx) ==
    LET patterns ==
            [ sandwich |-> detectSandwichPattern(mempoolData, userTx),
              frontrun |-> detectFrontrunPattern(mempoolData, userTx),
              backrun |-> detectBackrunPattern(mempoolData, userTx),
              copycat |-> detectCopycatPattern(mempoolData, userTx),
              jit |-> detectJITLiquidityPattern(mempoolData, userTx) ]
    IN  [ patterns |-> patterns,
          aggregateRisk |-> calculateAggregateRisk(patterns) ]

(***************************************************************************)
(* Legacy detectors, congestion and the scan handler's risk score          *)
(***************************************************************************)
\* (variant: the reverse pair is taken to be the pair itself)
ReversePairUnswapped(userTx) == <<userTx.token_in, userTx.token_out>>

ReversePair(userTx) == <<userTx.token_out, userTx.token_in>>

\* legacy calculatePriceImpact(amountIn, liquidityPool = 1000000), in
\* percent: min(amountIn / 1000000 * 100, 100) > k  <=>  the test below
LegacyPriceImpactOver(amountIn, k) == amountIn > k * 10000 /\ k < 100

detectSandwich(userTx, mempoolData) ==
    LET userAmount == userTx.amount_in
        u == UserGasPrice(mempoolData, userTx)
        samePair(tx) == tx.tokenPair = UserPair(userTx)
                          \/ tx.tokenPair = ReversePair(userTx)
        samePairTxs == SelectSeq(mempoolData.competingTxs, samePair)
        front(tx) == 20 * tx.gasPrice > 21 * u /\ tx.tokenPair = UserPair(userTx)
        back(tx) == 20 * tx.gasPrice < 19 * u /\ tx.tokenPair = ReversePair(userTx)
        frontRunners == SelectSeq(samePairTxs, front)
        backRunners == SelectSeq(samePairTxs, back)
        riskScore == 70 + Min(Len(frontRunners) * 5, 15)
                       + (IF userAmount > 10000 THEN 5 ELSE 0)
                       + (IF userAmount > 50000 THEN 5 ELSE 0)
                       + (IF LegacyPriceImpactOver(userAmount, 1) THEN 5 ELSE 0)
                       + (IF LegacyPriceImpactOver(userAmount, 2) THEN 5 ELSE 0)
    IN  IF Len(samePairTxs) = 0
        THEN [risk |-> "low", score |-> 10, type |-> "none"]
        ELSE IF Len(frontRunners) > 0 /\ Len(backRunners) > 0
             THEN [risk |-> IF riskScore >= 85 THEN "critical" ELSE "high",
                   score |-> Min(riskScore, 100), type |-> "sandwich"]
        ELSE IF Len(frontRunners) > 0
             THEN [risk |-> "medium", score |-> 50 + Len(frontRunners) * 5,
                   type |-> "potential-sandwich"]
        ELSE [risk |-> "low", score |-> 20 + Len(samePairTxs) * 3,
              type |-> "none"]

detectFrontRun(userTx, mempoolData) ==
    LET u == UserGasPrice(mempoolData, userTx)
        similar(tx) == tx.tokenPair = UserPair(userTx)
        similarTxs == SelectSeq(mempoolData.competingTxs, similar)
        high(tx) == 10 * tx.gasPrice > 11 * u
        veryHigh(tx) == 4 * tx.gasPrice > 5 * u
        highGasCompetitors == SelectSeq(similarTxs, high)
        veryHighGasCompetitors == SelectSeq(similarTxs, veryHigh)
        riskScore ==
            IF Len(veryHighGasCompetitors) > 0
            THEN 70 + Len(veryHighGasCompetitors) * 5
            ELSE IF Len(highGasCompetitors) > 0
            THEN 50 + Len(highGasCompetitors) * 5
            ELSE 20 + Len(similarTxs) * 3
        attackType ==
            IF Len(veryHighGasCompetitors) > 0 \/ Len(highGasCompetitors) > 0
            THEN "front-run" ELSE "none"
        risk ==
            IF Len(veryHighGasCompetitors) > 0
            THEN IF Min(riskScore, 100) >= 85 THEN "critical" ELSE "high"
            ELSE IF Len(highGasCompetitors) > 0 THEN "medium"
            ELSE "low"
    IN  IF Len(similarTxs) = 0
        THEN [risk |-> "low", score |-> 5, type |-> "none"]
        ELSE [risk |-> risk, score |-> Min(riskScore, 100), type |-> attackType]

\* legacy detectCopycat: the records carry no amount field, so
\* Math.abs(tx.amount - userAmount) is NaN for them
detectCopycat(userTx, mempoolData) ==
    LET u == UserGasPrice(mempoolData, userTx)
        userAmount == userTx.amount_in
        copies(tx) ==
            /\ tx.tokenPair = UserPair(userTx)
            /\ "amount" \in DOMAIN tx
            /\ 10 * (IF tx.amount > userAmount THEN tx.amount - userAmount
                     ELSE userAmount - tx.amount) < userAmount
            /\ 20 * tx.gasPrice > 21 * u
        copycatTxs == SelectSeq(mempoolData.competingTxs, copies)
    IN  [detected |-> Len(copycatTxs) > 0, count |-> Len(copycatTxs)]

\* performHistoricalAnalysis: the three components come from the attack
\* history tables and the clock
performHistoricalAnalysis(history) ==
    Min(history.pattern + history.attacker + history.timing, 40)

\* congestionScore of analyzeMempoolCongestion
congestionScore(mempoolData) ==
    LET pendingTxCount == mempoolData.pendingTxCount
    IN  IF pendingTxCount = 0 THEN 0
        ELSE IF pendingTxCount > 1000 THEN 90
        ELSE IF pendingTxCount > 500 THEN 70
        ELSE IF pendingTxCount > 200 THEN 40
        ELSE 20

\* pool calculatePriceImpact: (amountIn / reserveIn * 100).toFixed(4), in
\* ten-thousandths of a percent
calculatePriceImpact(poolData, tradeAmount) ==
    LET g == GCD(1000000, poolData.reserveIn)
    IN  RoundRatio(tradeAmount * (1000000 \div g), poolData.reserveIn \div g)

\* combinedRisk + priceImpactRisk + congestionRisk, in thousandths
RiskThousandths(in) ==
    LET patternRiskScore == analyzeMEVPatterns(in.mempoolData, in.userTx).aggregateRisk
        sandwichRisk == detectSandwich(in.userTx, in.mempoolData)
        frontRunRisk == detectFrontRun(in.userTx, in.mempoolData)
        historical == performHistoricalAnalysis(in.history)
        \* 0.4 * (0.45 s + 0.35 f + 0.20 h)
        legacy == 180 * sandwichRisk.score + 140 * frontRunRisk.score + 80 * historical
        priceImpactRisk ==
            IF calculatePriceImpact(in.poolData, in.userTx.amount_in) > 20000
            THEN 10 ELSE 0
    IN  600 * patternRiskScore + legacy + 1000 * priceImpactRisk
          + 100 * congestionScore(in.mempoolData)

\* (variant: the final Math.min(..., 100) is dropped)
RiskScoreUncapped(in) == RoundRatio(RiskThousandths(in), 1000)

\* riskScore = Math.min(Math.round(combined + priceImpact + congestion), 100)
RiskScore(in) == Min(RoundRatio(RiskThousandths(in), 1000), 100)

\* (variant: a confidence equal to the threshold passes)
PassesInclusive(patterns, n, tenths) ==
    patterns[n].detected /\ 10 * patterns[n].conf >= tenths * patterns[n].den

\* patterns[n].detected && patterns[n].confidence > tenths / 10
Passes(patterns, n, tenths) ==
    patterns[n].detected /\ 10 * patterns[n].conf > tenths * patterns[n].den

\* (variant: the copycat test is made before the sandwich test)
determineAttackTypeCopycatFirst(patterns, sandwichRisk, frontRunRisk, copycatRisk) ==
    IF Passes(patterns, "copycat", 7) THEN "copycat-frontrun"
    ELSE IF Passes(patterns, "sandwich", 7) THEN "sandwich"
    ELSE IF Passes(patterns, "frontrun", 6) THEN "front-run"
    ELSE IF Passes(patterns, "backrun", 6) THEN "back-run"
    ELSE IF Passes(patterns, "jit", 6) THEN "jit-liquidity"
    ELSE IF copycatRisk.detected THEN "copycat-frontrun"
    ELSE IF 10 * sandwichRisk.score >= 9 * frontRunRisk.score
         THEN sandwichRisk.type
    ELSE frontRunRisk.type

determineAttackType(patterns, sandwichRisk, frontRunRisk, copycatRisk) ==
    IF Passes(patterns, "sandwich", 7) THEN "sandwich"
    ELSE IF Passes(patterns, "copycat", 7) THEN "copycat-frontrun"
    ELSE IF Passes(patterns, "frontrun", 6) THEN "front-run"
    ELSE IF Passes(patterns, "backrun", 6) THEN "back-run"
    ELSE IF Passes(patterns, "jit", 6) THEN "jit-liquidity"
    \* fallback to legacy detection
    ELSE IF copycatRisk.detected THEN "copycat-frontrun"
    ELSE IF 10 * sandwichRisk.score >= 9 * frontRunRisk.score
         THEN sandwichRisk.type
    ELSE frontRunRisk.type

AggregatorNext ==
    \E s \in Callers :
        \/ StartScan(s)
        \/ BlocknativeFails(s)
        \/ BlocknativeSucceeds(s)
        \/ BlocknativeStalls(s)
        \/ ProviderThrows(s)
        \/ RpcFails(s)
        \/ RpcSucceeds(s)
        \/ BlocksSucceed(s)
        \/ BlocksFail(s)

SubscriberNext ==
    \/ InitWebSocketMempoolService
    \/ WsOpen
    \/ WsMessage
    \/ LookupFails
    \/ LookupResolves
    \/ WsError
    \/ WsClose
    \/ ReconnectTimer
    \/ CloseWebSocketMempool
    \/ PollOk
    \/ PollFail

InitSub ==
    /\ env \in Envs
    /\ now = StartTime
    /\ wsInitialized = FALSE
    /\ socket = "none"
    /\ wsConnection = FALSE
    /\ reconnectAttempts = 0
    /\ timers = 0
    /\ polling = FALSE
    /\ pendingTxCache = InitPendingTxCache
    /\ inflight = 0
    /\ consecFails = 0

Init ==
    /\ InitSub
    /\ budget = MaxInputs
    /\ cache = <<>>
    /\ scans = [s \in Callers |-> IdleScan]
    /\ evalIn = NoEvaluation
    /\ evalOut = NoEvaluation

Next == SubscriberNext \/ AggregatorNext \/ Tick

Spec == Init /\ [][Next]_vars

\* the subscriber alone, over a longer sequence of stream events
InitSubscriber ==
    /\ InitSub
    /\ budget = MaxSubInputs
    /\ cache = <<>>
    /\ scans = [s \in Callers |-> IdleScan]
    /\ evalIn = NoEvaluation
    /\ evalOut = NoEvaluation

NextSubscriber == SubscriberNext \/ Tick

SubSpec == InitSubscriber /\ [][NextSubscriber]_vars

\* the aggregator without a subscriber, over a time span longer than the
\* eviction threshold of the cache
InitCache ==
    /\ InitSub
    /\ budget = MaxCacheTicks
    /\ cache = <<>>
    /\ scans = [s \in Callers |-> IdleScan]
    /\ evalIn = NoEvaluation
    /\ evalOut = NoEvaluation

CacheSpec == InitCache /\ [][AggregatorNext \/ Tick]_vars

\* every await of a running call settles when its continuation is enabled
ScanStep(s) ==
    \/ BlocknativeFails(s)
    \/ BlocknativeSucceeds(s)
    \/ BlocknativeStalls(s)
    \/ ProviderThrows(s)
    \/ RpcFails(s)
    \/ RpcSucceeds(s)
    \/ BlocksSucceed(s)
    \/ BlocksFail(s)

FairSpec == Init /\ [][Next]_vars /\ \A s \in Callers : WF_vars(ScanStep(s))

(***************************************************************************)
(* Evaluation of one scan: the detectors and the score are pure functions  *)
(* of the snapshot, the trade, the pool and the attack history.            *)
(***************************************************************************)
EvalTxs ==
    { [gasPrice |-> 90000, tokenPair |-> <<"ETH", "USDC">>, value |-> 60000,
       input |-> SwapSig],
      [gasPrice |-> 30000, tokenPair |-> <<"USDC", "ETH">>, value |-> 60000,
       input |-> SwapSig],
      [gasPrice |-> 90000, tokenPair |-> <<"ETH", "USDC">>, value |-> 1000,
       input |-> AddLiquiditySig],
      [gasPrice |-> 36000, tokenPair |-> UnknownPair, value |-> 1000,
       input |-> SwapSig],
      [gasPrice |-> 20000, tokenPair |-> <<"USDC", "ETH">>, value |-> 1000,
       input |-> SwapSig],
      [gasPrice |-> 40000, tokenPair |-> <<"DAI", "USDC">>, value |-> 5,
       input |-> SwapSig],
      [gasPrice |-> 29000, tokenPair |-> <<"USDC", "ETH">>, value |-> 1000,
       input |-> SwapSig],
      [gasPrice |-> 20000, tokenPair |-> UnknownPair, value |-> 5,
       input |-> AddLiquiditySig],
      [gasPrice |-> 37000, tokenPair |-> <<"ETH", "USDC">>, value |-> 5,
       input |-> SwapSig] }

EvalSnapshots ==
    { [competingTxs |-> txs, gasPercentiles |-> DefaultPercentiles,
       pendingTxCount |-> n] :
        txs \in UNION {[1..k -> EvalTxs] : k \in 0..MaxCompeting},
        n \in {0, 150, 1200} }

\* trade descriptors: gasPrice is the key the detectors read, gas_price the
\* key of the scan request
EvalTrades ==
    { [token_in |-> "ETH", token_out |-> "USDC", amount_in |-> a,
       hasGasPrice |-> g[1], gasPrice |-> g[2],
       has_gas_price |-> g[3], gas_price |-> g[4]] :
        a \in {1000, 60000},
        g \in {<<FALSE, 0, FALSE, 0>>, <<TRUE, 0, FALSE, 0>>,
               <<TRUE, 30000, FALSE, 0>>, <<FALSE, 0, TRUE, 30000>>} }

EvalPools == {[reserveIn |-> 1000000], [reserveIn |-> 10000000]}

EvalHistories ==
    { [pattern |-> 0, attacker |-> 0, timing |-> 0],
      [pattern |-> 40, attacker |-> 30, timing |-> 8] }

InitEval ==
    /\ env = [infura |-> FALSE, alchemy |-> FALSE, blocknative |-> FALSE]
    /\ now = StartTime
    /\ wsInitialized = FALSE
    /\ socket = "none"
    /\ wsConnection = FALSE
    /\ reconnectAttempts = 0
    /\ timers = 0
    /\ polling = FALSE
    /\ pendingTxCache = InitPendingTxCache
    /\ inflight = 0
    /\ consecFails = 0
    /\ budget = 0
    /\ cache = <<>>
    /\ scans = [s \in Callers |-> IdleScan]
    /\ evalIn \in { [done |-> TRUE, mempoolData |-> m, userTx |-> u,
                     poolData |-> p, history |-> h] :
                       m \in EvalSnapshots, u \in EvalTrades,
                       p \in EvalPools, h \in EvalHistories }
    /\ evalOut = NoEvaluation

\* scanRequestSchema.parse(req.body): the keys of the schema are kept
\* (gas_price among them), every other key (gasPrice) is stripped
scanRequestSchema(body) == [body EXCEPT !.hasGasPrice = FALSE, !.gasPrice = 0]

\* the detectors, the legacy detectors and the scoring applied to one trade
\* descriptor
Evaluation(in, via) ==
    IF AnalysisThrows(in.mempoolData, in.userTx)
    THEN [done |-> TRUE, raised |-> TRUE, via |-> via, input |-> in.userTx]
    ELSE
      LET analysis == analyzeMEVPatterns(in.mempoolData, in.userTx)
      IN  [ done |-> TRUE,
            raised |-> FALSE,
            via |-> via,
            input |-> in.userTx,
            patterns |-> analysis.patterns,
            aggregateRisk |-> analysis.aggregateRisk,
            sandwichRisk |-> detectSandwich(in.userTx, in.mempoolData),
            frontRunRisk |-> detectFrontRun(in.userTx, in.mempoolData),
            risk_score |-> RiskScore(in),
            attack_type |->
                determineAttackType(
                    analysis.patterns,
                    detectSandwich(in.userTx, in.mempoolData),
                    detectFrontRun(in.userTx, in.mempoolData),
                    detectCopycat(in.userTx, in.mempoolData)) ]

\* steps 3 to 5 of the scan handler; analyzeMEVPatterns and the legacy
\* detectors receive the parsed request (an error is answered by the
\* handler's catch)
ScanTransaction ==
    /\ ~evalOut.done
    /\ evalOut' =
          Evaluation([evalIn EXCEPT !.userTx = scanRequestSchema(evalIn.userTx)],
                     "scan")
    /\ UNCHANGED <<env, budget, now, subVars, aggVars, evalIn>>

\* the exported detectors called with a descriptor of the caller's making
ApplyDetectors ==
    /\ ~evalOut.done
    /\ evalOut' = Evaluation(evalIn, "direct")
    /\ UNCHANGED <<env, budget, now, subVars, aggVars, evalIn>>

NextEval == ScanTransaction \/ ApplyDetectors

\* records with a missing or non-string field next to well-formed ones
MalformedTxs ==
    { [gasPrice |-> 40000, tokenPair |-> <<>>, value |-> 1000, input |-> SwapSig],
      [gasPrice |-> 40000, tokenPair |-> NonStringPair, value |-> 1000,
       input |-> SwapSig],
      [gasPrice |-> 35000, tokenPair |-> NonStringPair, value |-> 1000,
       input |-> SwapSig],
      [gasPrice |-> 20000, tokenPair |-> <<"USDC", "ETH">>, value |-> 1000,
       input |-> NonStringInput],
      [gasPrice |-> 20000, tokenPair |-> <<"USDC", "ETH">>, value |-> 1000,
       input |-> ""],
      [gasPrice |-> 90000, tokenPair |-> <<"ETH", "USDC">>, value |-> 60000,
       input |-> SwapSig] }

InitMalformed ==
    /\ env = [infura |-> FALSE, alchemy |-> FALSE, blocknative |-> FALSE]
    /\ now = StartTime
    /\ wsInitialized = FALSE
    /\ socket = "none"
    /\ wsConnection = FALSE
    /\ reconnectAttempts = 0
    /\ timers = 0
    /\ polling = FALSE
    /\ pendingTxCache = InitPendingTxCache
    /\ inflight = 0
    /\ consecFails = 0
    /\ budget = 0
    /\ cache = <<>>
    /\ scans = [s \in Callers |-> IdleScan]
    /\ evalIn \in { [done |-> TRUE,
                     mempoolData |->
                         [competingTxs |-> txs,
                          gasPercentiles |-> DefaultPercentiles,
                          pendingTxCount |-> 150],
                     userTx |-> u,
                     poolData |-> [reserveIn |-> 1000000],
                     history |-> [pattern |-> 0, attacker |-> 0, timing |-> 0]] :
                       txs \in UNION {[1..k -> MalformedTxs] : k \in 0..MaxCompeting},
                       u \in EvalTrades }
    /\ evalOut = NoEvaluation

MalformedSpec == InitMalformed /\ [][NextEval]_vars

(***************************************************************************)
(* Classification of one resolved transaction                              *)
(***************************************************************************)
\* a connected subscriber with some buffer contents and one lookup in
\* flight; evalIn holds the transaction the node will answer
InitClassify ==
    /\ env = [infura |-> TRUE, alchemy |-> FALSE, blocknative |-> FALSE]
    /\ now = StartTime
    /\ wsInitialized = TRUE
    /\ socket = "open"
    /\ wsConnection = TRUE
    /\ reconnectAttempts = 0
    /\ timers = 0
    /\ polling = FALSE
    /\ \E buffer \in UNION { [1..k -> { ProcessedTx(x) :
                                  x \in {y \in LookupTxs : isDexTransaction(y)} }] :
                                k \in 0..MAX_CACHED_TXS } :
        \E tx \in [ to : {RouterAddr, OtherAddr, NullAddr},
                    data : {SwapSig, AddLiquiditySig, TransferSig},
                    gasPrice : {30125, 0}, value : {0} ] :
          /\ pendingTxCache = [ transactions |-> buffer,
                                lastUpdate |-> IF buffer = <<>> THEN 0
                                               ELSE StartTime - TickMs,
                                isConnected |-> TRUE, source |-> "infura" ]
          /\ evalIn = [done |-> TRUE, tx |-> tx, buffer |-> buffer]
    /\ inflight = 1
    /\ consecFails = 0
    /\ budget = 0
    /\ cache = <<>>
    /\ scans = [s \in Callers |-> IdleScan]
    /\ evalOut = NoEvaluation

\* processPendingTransaction resumes with evalIn.tx
ProcessPendingTransaction ==
    /\ inflight > 0
    /\ ~evalOut.done
    /\ pendingTxCache' = processPendingTransaction(pendingTxCache, evalIn.tx, now)
    /\ inflight' = inflight - 1
    /\ evalOut' = [done |-> TRUE]
    /\ UNCHANGED <<env, budget, now, wsInitialized, socket, wsConnection,
                   reconnectAttempts, timers, polling, consecFails, evalIn>>
    /\ UNCHANGED aggVars

ClassifySpec == InitClassify /\ [][ProcessPendingTransaction]_vars

EvalSpec == InitEval /\ [][NextEval]_vars

(***************************************************************************)
(* Properties of the aggregator                                            *)
(***************************************************************************)
Settled(sc) == sc.pc \in {"done", "raised"}

BaselineSnapshotShape(d) ==
    /\ d.dataSource = "simulated"
    /\ d.confidence = 50
    /\ d.competingTxs = <<>>
    /\ d.gasPercentiles = DefaultPercentiles

\* C1: getRealMempoolData never raises and never returns null; when every
\* strategy it tried returned null, the result is the baseline snapshot
\* (confidence 0.50, source simulated, no competing transactions).
C1_NeverRaises ==
    \A s \in Callers :
        /\ scans[s].pc # "raised"
        /\ scans[s].pc = "done" =>
              /\ scans[s].result # NoSnapshot
              /\ (\A i \in DOMAIN scans[s].tried :
                       scans[s].tried[i][1] # "baseline" =>
                           scans[s].tried[i][2] = "null")
                    /\ ~scans[s].hit
                 => BaselineSnapshotShape(scans[s].result)

Rank(st) ==
    CASE st = "ws" -> 1
      [] st = "blocknative" -> 2
      [] st = "rpc" -> 3
      [] st = "blocks" -> 4
      [] st = "baseline" -> 5

Strategies == {"ws", "blocknative", "rpc", "blocks", "baseline"}

\* the strategies a call has attempted so far, the awaited one included
Attempts(sc) ==
    IF sc.pc \in {"blocknative", "rpc", "blocks"}
    THEN Append(sc.tried, <<sc.pc, "pending">>)
    ELSE sc.tried

Eligible(sc, st) ==
    CASE st = "ws" -> sc.gate
      [] st = "blocknative" -> env.blocknative
      [] OTHER -> TRUE

\* C2: within one call that misses the cache the strategies are attempted
\* in the order socket buffer, premium provider, RPC pending block,
\* recent blocks, baseline; a strategy is attempted only when it is
\* eligible and every eligible strategy of higher priority has returned
\* null, and nothing is attempted after the first non-null result (nor on
\* a cache hit).
C2_StrategyOrder ==
    \A s \in Callers :
        LET sc == scans[s]
            all == Attempts(sc)
        IN  /\ sc.hit => all = <<>>
            /\ \A i, j \in DOMAIN all :
                   i < j => Rank(all[i][1]) < Rank(all[j][1])
            /\ \A i \in DOMAIN all : i < Len(all) => all[i][2] = "null"
            /\ \A i \in DOMAIN all :
                   /\ Eligible(sc, all[i][1])
                   /\ \A st \in Strategies :
                          Rank(st) < Rank(all[i][1]) /\ Eligible(sc, st)
                             => \E k \in 1..(i - 1) : all[k][1] = st
            /\ sc.pc = "done" /\ ~sc.hit => all[Len(all)][2] = "data"

C2_Witness ==
    \E s \in Callers :
        /\ scans[s].pc = "done"
        /\ scans[s].tried =
              << <<"ws", "null">>, <<"blocknative", "null">>, <<"rpc", "null">>,
                 <<"blocks", "null">>, <<"baseline", "data">> >>

RealMempoolLabels ==
    {"real-mempool-infura", "real-mempool-blocknative", "real-mempool-none"}

\* C4: a call made while strategy 1 is unavailable (subscriber
\* disconnected or buffer stale) never returns a snapshot with confidence
\* 0.98 or a real-mempool source label, cached snapshots included.
C4_FallbackMonotone ==
    \A s \in Callers :
        scans[s].pc = "done" /\ ~scans[s].wsUp =>
            /\ scans[s].result.confidence # 98
            /\ scans[s].result.dataSource \notin RealMempoolLabels

\* C5: two calls for the same pair made within the cache lifetime of
\* 3 seconds return identical snapshots, and the second call invokes no
\* strategy.  (While the clock has advanced less than the lifetime since
\* the start, any two calls of the behaviour are within it.)
C5_CacheIdempotent ==
    \A i, j \in Callers :
        /\ i \in scans[j].prior
        /\ scans[i].tokenPair = scans[j].tokenPair
        /\ now - StartTime < CACHE_DURATION
        => /\ scans[j].hit
           /\ scans[j].tried = <<>>
           /\ scans[j].result = scans[i].result

\* C6: every call eventually returns.
C6_EveryCallReturns ==
    \A s \in Callers : (scans[s].pc # "idle") ~> Settled(scans[s])

Ordered(g) == g.p25 <= g.p50 /\ g.p50 <= g.p75 /\ g.p75 <= g.p90

\* C7: every returned snapshot has p25 <= p50 <= p75 <= p90, and the
\* baseline carries the default quadruple.
C7_PercentilesOrdered ==
    \A s \in Callers :
        scans[s].pc = "done" =>
            /\ Ordered(scans[s].result.gasPercentiles)
            /\ scans[s].result.dataSource = "simulated" =>
                  scans[s].result.gasPercentiles = DefaultPercentiles

ConfidenceOfLabel(label) ==
    CASE label \in RealMempoolLabels -> 98
      [] label = "blocknative" -> 95
      [] label = "ethereum-rpc" -> 85
      [] label = "block-analysis" -> 70
      [] label = "simulated" -> 50

LabelsOfStrategy(st) ==
    CASE st = "ws" -> RealMempoolLabels
      [] st = "blocknative" -> {"blocknative"}
      [] st = "rpc" -> {"ethereum-rpc"}
      [] st = "blocks" -> {"block-analysis"}
      [] st = "baseline" -> {"simulated"}

ReconnectCapHolds ==
    /\ reconnectAttempts \in 0..MAX_RECONNECT_ATTEMPTS
    /\ consecFails >= MAX_RECONNECT_ATTEMPTS =>
          ~getWebSocketStatus.isConnected

\* C3: the retry counter never exceeds the cap of 5; once 5 consecutive
\* closes have been handled with no open in between, the status reports
\* connected = false and no step schedules another reconnect.
C3_ReconnectBound ==
    [][ /\ ReconnectCapHolds
        /\ ReconnectCapHolds'
        /\ consecFails >= MAX_RECONNECT_ATTEMPTS => timers' <= timers ]_vars

C3_Witness ==
    /\ consecFails > MAX_RECONNECT_ATTEMPTS
    /\ reconnectAttempts = MAX_RECONNECT_ATTEMPTS
    /\ socket = "closed"
    /\ timers = 0

(***************************************************************************)
(* Properties of the pattern analyzer and the risk score                   *)
(***************************************************************************)
Percent == 0..100

\* C9: for every snapshot and every trade the aggregate risk of
\* analyzeMEVPatterns is an integer between 0 and 100, and so is the final
\* risk_score the scan returns after the legacy, price-impact and congestion
\* terms are added.
C9_ScoreRange ==
    evalOut.done =>
        /\ evalOut.aggregateRisk \in Percent
        /\ evalOut.risk_score \in Percent

\* a scan whose terms add up to more than 100 before the final cap
C9_Witness ==
    /\ evalOut.done
    /\ RiskThousandths([evalIn EXCEPT !.userTx = evalOut.input]) > 100500
    /\ evalOut.risk_score = 100
    /\ evalOut.aggregateRisk >= 90

\* C10: with an empty competing-transaction list all five detectors report
\* detected = false for every trade, and the aggregate score is at most 20.
C10_NoCompetitors ==
    (evalOut.done /\ evalIn.mempoolData.competingTxs = <<>>) =>
        /\ \A n \in PatternNames : ~evalOut.patterns[n].detected
        /\ evalOut.aggregateRisk <= 20

\* an empty list evaluated for a trade that names its own gas price, on a
\* congested mempool
C10_Witness ==
    /\ evalOut.done
    /\ evalIn.mempoolData.competingTxs = <<>>
    /\ evalOut.input.hasGasPrice
    /\ evalIn.mempoolData.pendingTxCount > 1000
    /\ evalOut.aggregateRisk = 0

(***************************************************************************)
(* Properties of the single detectors                                      *)
(***************************************************************************)
\* the caller's gas price as the detectors take it from their descriptor
EvalUserGas == UserGasPrice(evalIn.mempoolData, evalOut.input)

EvalCompeting == evalIn.mempoolData.competingTxs

\* C11: the sandwich detector's front-runners are exactly the competitors
\* with gas price >= 1.05 x the caller's in the caller's trading direction,
\* its back-runners exactly those with gas price <= 0.95 x the caller's in
\* the reverse token order; it fires iff both sets are non-empty, and then
\* with confidence >= 0.6.
C11_SandwichPartition ==
    (evalOut.done /\ EvalCompeting # <<>>) =>
        LET sameDirectionAbove(tx) ==
                /\ 20 * tx.gasPrice >= 21 * EvalUserGas
                /\ tx.tokenPair = UserPair(evalIn.userTx)
            reverseBelow(tx) ==
                /\ 20 * tx.gasPrice <= 19 * EvalUserGas
                /\ tx.tokenPair = ReversePair(evalIn.userTx)
            sandwich == evalOut.patterns.sandwich
        IN  /\ sandwich.frontRunners = SelectSeq(EvalCompeting, sameDirectionAbove)
            /\ sandwich.backRunners = SelectSeq(EvalCompeting, reverseBelow)
            /\ sandwich.detected <=>
                  (sandwich.frontRunners # <<>> /\ sandwich.backRunners # <<>>)
            /\ sandwich.detected => 1000 * sandwich.conf >= 600 * sandwich.den

\* the competitors, by position, that satisfy P
Positions(P(_)) == {i \in 1..Len(EvalCompeting) : P(EvalCompeting[i])}

C13_FrontRun ==
    evalOut.done =>
        LET pair == <<evalIn.userTx.token_in, evalIn.userTx.token_out>>
            u == EvalUserGas
            competes(tx) ==
                /\ tx.gasPrice > u
                /\ \/ tx.tokenPair = pair
                   \/ tx.tokenPair = <<pair[2], pair[1]>>
                   \/ {tx.tokenPair[1], tx.tokenPair[2]} \cap {pair[1], pair[2]} # {}
            who == Positions(competes)
            n == Cardinality(who)
            top == CHOOSE i \in who :
                       \A j \in who : EvalCompeting[j].gasPrice <= EvalCompeting[i].gasPrice
            \* 1000 u (0.5 + 0.1 n + 0.3 (top - u) / u)
            scaled == 500 * u + 100 * u * n + 300 * (EvalCompeting[top].gasPrice - u)
            frontrun == evalOut.patterns.frontrun
        IN  /\ frontrun.detected <=> n >= 1
            /\ (frontrun.detected /\ u > 0) =>
                  /\ frontrun.conf = Ratio(Min(scaled, 1000 * u), 1000 * u).conf
                  /\ frontrun.den = Ratio(Min(scaled, 1000 * u), 1000 * u).den
            /\ (frontrun.detected /\ u = 0) => frontrun.conf = frontrun.den
            /\ ~frontrun.detected => frontrun.conf = 0

\* a competitor that only shares one token with the trade, with a gas gap
\* small enough to leave the confidence below the cap
C13_Witness ==
    /\ evalOut.done
    /\ evalOut.patterns.frontrun.detected
    /\ evalOut.patterns.frontrun.conf < evalOut.patterns.frontrun.den
    /\ \A i \in 1..Len(EvalCompeting) :
           EvalCompeting[i].gasPrice > EvalUserGas =>
               EvalCompeting[i].tokenPair = <<"DAI", "USDC">>

\* the detector fired with a confidence above tenths / 10
Above(n, tenths) ==
    /\ evalOut.patterns[n].detected
    /\ 10 * evalOut.patterns[n].conf > tenths * evalOut.patterns[n].den

\* C14: the primary classification follows the precedence sandwich (> 0.7),
\* copycat (> 0.7; the code's label is copycat-frontrun), front-run (> 0.6),
\* back-run (> 0.6), jit-liquidity (> 0.6), and is "none" whenever no
\* detector passes its threshold.
C14_Classification ==
    evalOut.done =>
        evalOut.attack_type =
            CASE Above("sandwich", 7) -> "sandwich"
              [] ~Above("sandwich", 7) /\ Above("copycat", 7) -> "copycat-frontrun"
              [] ~Above("sandwich", 7) /\ ~Above("copycat", 7)
                   /\ Above("frontrun", 6) -> "front-run"
              [] ~Above("sandwich", 7) /\ ~Above("copycat", 7)
                   /\ ~Above("frontrun", 6) /\ Above("backrun", 6) -> "back-run"
              [] ~Above("sandwich", 7) /\ ~Above("copycat", 7)
                   /\ ~Above("frontrun", 6) /\ ~Above("backrun", 6)
                   /\ Above("jit", 6) -> "jit-liquidity"
              [] OTHER -> "none"

\* detectors fired below their thresholds and the legacy detectors saw
\* competitors on the pair: the classification is still "none"
C14_Witness ==
    /\ evalOut.done
    /\ evalOut.attack_type = "none"
    /\ evalOut.patterns.backrun.detected
    /\ evalOut.patterns.jit.detected
    /\ detectSandwich(evalIn.userTx, evalIn.mempoolData).score > 10

\* C15: the aggregate score is min(100, round(sum over the detectors that
\* fired of confidence x weight x 100)) with weights sandwich 0.40,
\* front-run 0.30, copycat 0.15, back-run 0.10, JIT 0.05; a detector that
\* did not fire contributes nothing.
C15_Aggregate ==
    evalOut.done =>
        LET p == evalOut.patterns
            \* a common denominator of the five confidences
            d == p.sandwich.den * p.frontrun.den
            part(r, weight) ==
                IF r.detected THEN r.conf * (d \div r.den) * weight ELSE 0
            total == part(p.sandwich, 40) + part(p.frontrun, 30)
                       + part(p.copycat, 15) + part(p.backrun, 10)
                       + part(p.jit, 5)
            rounded == (2 * total + d) \div (2 * d)
        IN  /\ p.copycat.den \in {1, p.sandwich.den}
            /\ p.backrun.den \in {1, p.sandwich.den}
            /\ p.jit.den \in {1, p.sandwich.den}
            /\ evalOut.aggregateRisk = IF rounded > 100 THEN 100 ELSE rounded

\* two detectors fired, the others did not, and the front-run confidence
\* is no round number
C15_Witness ==
    /\ evalOut.done
    /\ ~evalOut.patterns.sandwich.detected
    /\ evalOut.patterns.frontrun.detected
    /\ ~evalOut.patterns.copycat.detected
    /\ evalOut.patterns.jit.detected
    /\ evalOut.patterns.frontrun.den \notin {1, 2, 5, 10}
    /\ evalOut.aggregateRisk < 100

(***************************************************************************)
(* Properties of the subscriber and the cache                              *)
(***************************************************************************)
\* C16: a call that misses the cache while the subscription is active
\* (connected, and either nothing buffered yet or an update within the
\* staleness window) is answered by strategy 1: a real-mempool snapshot with
\* confidence 0.98, whose competitor set is empty when the buffer is.
C16_StreamingWhenActive ==
    \A s \in Callers :
        (scans[s].pc # "idle" /\ ~scans[s].hit /\ scans[s].active) =>
            /\ scans[s].pc = "done"
            /\ scans[s].tried = << <<"ws", "data">> >>
            /\ scans[s].result.confidence = 98
            /\ scans[s].result.dataSource \in RealMempoolLabels

\* C17: the teardown closes the socket, releases the buffered records and
\* leaves the status disconnected, and the close event it causes starts no
\* reconnect attempt.
C17_TeardownIsFinal ==
    [][ \* closeWebSocketMempool closes the live socket
        /\ (socket # "closing" /\ socket' = "closing") =>
              /\ pendingTxCache'.transactions = <<>>
              /\ ~pendingTxCache'.isConnected
        \* the close event of a socket closed by the teardown
        /\ (socket = "closing" /\ socket' = "closed") =>
              /\ timers' = timers
              /\ reconnectAttempts' = reconnectAttempts ]_vars

(***************************************************************************)
(* Malformed records                                                       *)
(***************************************************************************)
\* C18: no evaluation raises an error: a record with a missing or
\* non-string pair or input field is no evidence, and the remaining records
\* are still analysed.
C18_NoErrorEscapes ==
    evalOut.done =>
      LET WellFormed(tx) ==
              Len(tx.tokenPair) = 2 /\ tx.input \notin {"", NonStringInput}
      IN
        /\ ~evalOut.raised
        /\ (\E i \in 1..Len(EvalCompeting) :
                /\ WellFormed(EvalCompeting[i])
                /\ EvalCompeting[i].gasPrice > EvalUserGas
                /\ EvalCompeting[i].tokenPair
                      = <<evalIn.userTx.token_in, evalIn.userTx.token_out>>)
              => evalOut.patterns.frontrun.detected

(***************************************************************************)
(* The record buffer                                                       *)
(***************************************************************************)
\* the records processPendingTransaction can insert
InsertableRecords == { ProcessedTx(tx) : tx \in {x \in LookupTxs : isDexTransaction(x)} }

\* C19: the buffer never holds more than its capacity; every step that
\* changes it puts one new record at the head, keeps the former records in
\* their order behind it, and drops only the former tail record when the
\* buffer was full.
C19_BufferBoundedNewestFirst ==
    [][ LET old == pendingTxCache.transactions
            new == pendingTxCache'.transactions
        IN  /\ Len(new) <= MAX_CACHED_TXS
            /\ new # old =>
                  /\ new[1] \in InsertableRecords
                  /\ Len(new) = Min(Len(old) + 1, MAX_CACHED_TXS)
                  /\ \A i \in 2..Len(new) : new[i] = old[i - 1] ]_vars

\* a full buffer with two different records, the newer one inserted in this
\* very millisecond, and a further lookup in flight
C19_Witness ==
    /\ Len(pendingTxCache.transactions) = MAX_CACHED_TXS
    /\ pendingTxCache.transactions[1] # pendingTxCache.transactions[MAX_CACHED_TXS]
    /\ pendingTxCache.lastUpdate = now
    /\ now > StartTime
    /\ inflight > 0

(***************************************************************************)
(* Expiry of cache entries                                                 *)
(***************************************************************************)
RowsOf(tokenPair) == {i \in 1..Len(cache) : cache[i].token_pair = tokenPair}

\* getRealMempoolData looks into the cache in this step
Looks(s) == scans[s].pc = "idle" /\ scans'[s].pc # "idle"

\* getRealMempoolData returns a snapshot it has built in this step
ReturnsFresh(s) == scans[s].pc # "done" /\ scans'[s].pc = "done" /\ ~scans'[s].hit

\* C20: a snapshot is served from the cache only while it is younger than
\* 3 seconds; when every entry of the pair is 3 seconds old or older the
\* lookup misses, and the snapshot then built is stored as a new entry while
\* the entries already there (the expired one included) stay as they were,
\* save those older than 10 seconds, which are deleted.
C20_ExpiredEntrySuperseded ==
    [][ LET \* cached_at holds whole seconds: a row was inserted at some
            \* millisecond of that second, so its age lies between these two
            MaxAgeMs(row) == now - 1000 * row.cached_at
            MinAgeMs(row) == now - (1000 * row.cached_at + 999)
        IN
        /\ \A s \in Callers :
            /\ Looks(s) /\ scans'[s].hit =>
                  \E i \in RowsOf(scans'[s].tokenPair) :
                      /\ JsonParse(cache[i].data) = scans'[s].result
                      /\ MaxAgeMs(cache[i]) < CACHE_DURATION
            /\ Looks(s)
                 /\ (\A i \in RowsOf(scans'[s].tokenPair) :
                         MinAgeMs(cache[i]) >= CACHE_DURATION)
                 => ~scans'[s].hit
            /\ ReturnsFresh(s) =>
                  LET young(row) == Seconds(now) - row.cached_at <= CLEAN_AGE_SECONDS
                      n == Len(cache')
                  IN  /\ n >= 1
                      /\ cache'[n] = [ token_pair |-> scans'[s].tokenPair,
                                       data |-> JsonStringify(scans'[s].result),
                                       cached_at |-> Seconds(now) ]
                      /\ SubSeq(cache', 1, n - 1) = SelectSeq(cache, young)
        /\ cache' # cache => \E s \in Callers : ReturnsFresh(s) ]_vars

\* an entry that reached 3 seconds, and behind it the entry of a later call
\* for the same pair which missed and built its own snapshot
C20_Witness ==
    \E i, j \in 1..Len(cache) : \E s \in Callers :
        /\ i < j
        /\ cache[i].token_pair = cache[j].token_pair
        /\ 1000 * cache[j].cached_at - (1000 * cache[i].cached_at + 999)
              >= CACHE_DURATION
        /\ scans[s].pc = "done" /\ ~scans[s].hit
        /\ scans[s].tokenPair = cache[j].token_pair
        /\ JsonStringify(scans[s].result) = cache[j].data

(***************************************************************************)
(* The caller's gas price in a scan                                        *)
(***************************************************************************)
\* C21: in a scan the detectors compare the competitors with the gas price
\* of the request when it carries one, and with the snapshot's p50 only when
\* it carries none.
C21_SuppliedGasPriceUsed ==
    (evalOut.done /\ evalOut.via = "scan" /\ ~evalOut.raised) =>
        LET u == IF evalIn.userTx.has_gas_price THEN evalIn.userTx.gas_price
                 ELSE evalIn.mempoolData.gasPercentiles.p50
        IN  /\ UserGasPrice(evalIn.mempoolData, evalOut.input) = u
            /\ evalOut.patterns.frontrun.detected =
                  \E i \in 1..Len(EvalCompeting) :
                      /\ EvalCompeting[i].gasPrice > u
                      /\ isSameOrRelatedPair(EvalCompeting[i].tokenPair,
                                             UserPair(evalIn.userTx))

C23_RetryCounter ==
    [][ /\ (socket = "connecting" /\ socket' = "open") => reconnectAttempts' = 0
        /\ (socket # "closed" /\ socket' = "closed") =>
              IF reconnectAttempts < MAX_RECONNECT_ATTEMPTS
              THEN /\ reconnectAttempts' = reconnectAttempts + 1
                   /\ timers' = timers + 1
              ELSE /\ reconnectAttempts' = reconnectAttempts
                   /\ timers' = timers
        /\ socket' = "errored" =>
              /\ reconnectAttempts' = reconnectAttempts
              /\ timers' = timers
        /\ reconnectAttempts' = Min(consecFails', MAX_RECONNECT_ATTEMPTS) ]_vars

\* the first failure after a subscription that had delivered records: it
\* counts as retry 1 and its retry is scheduled
C23_Witness ==
    /\ socket = "closed"
    /\ pendingTxCache.transactions # <<>>
    /\ reconnectAttempts = 1
    /\ timers = 1

(***************************************************************************)
(* Which transactions enter the buffer                                     *)
(***************************************************************************)
\* C24 as stated: a resolved transaction enters the buffer if and only if
\* its recipient is a known router or its method signature a known swap
\* signature; every record of the buffer passes that test and every other
\* transaction leaves the buffer as it was.
C24_InsertedIffDex ==
    [][ evalOut'.done =>
          LET tx == evalIn.tx
              matches == tx.to \in DEX_ROUTERS \/ tx.data \in WsSwapSignatures
          IN  pendingTxCache'.transactions =
                IF matches
                THEN Slice(<<ProcessedTx(tx)>> \o pendingTxCache.transactions,
                           MAX_CACHED_TXS)
                ELSE pendingTxCache.transactions ]_vars

\* C24, amended: the same for transactions that have a recipient; a
\* transaction without recipient (a contract creation) is discarded
\* whatever its data begin with.  Every record of the buffer passes the test.
C24_InsertedIffDexWithRecipient ==
    [][ /\ evalOut'.done =>
            LET tx == evalIn.tx
                matches == /\ tx.to # NullAddr
                           /\ tx.to \in DEX_ROUTERS \/ tx.data \in WsSwapSignatures
            IN  /\ pendingTxCache'.transactions =
                      IF matches
                      THEN Slice(<<ProcessedTx(tx)>> \o pendingTxCache.transactions,
                                 MAX_CACHED_TXS)
                      ELSE pendingTxCache.transactions
                /\ ~matches => pendingTxCache' = pendingTxCache
        /\ \A i \in 1..Len(pendingTxCache'.transactions) :
              LET r == pendingTxCache'.transactions[i]
              IN  r.to \in DEX_ROUTERS \/ r.input \in WsSwapSignatures ]_vars

\* a contract creation whose data begin with a swap signature has been
\* resolved and the buffer is what it was
C24_Witness ==
    /\ evalOut.done
    /\ "tx" \in DOMAIN evalIn
    /\ evalIn.tx.to = NullAddr
    /\ evalIn.tx.data = SwapSig
    /\ pendingTxCache.transactions = evalIn.buffer
    /\ Len(evalIn.buffer) = MAX_CACHED_TXS

C27_ScanLeavesSubscriber ==
    [][ (scans' # scans \/ cache' # cache) =>
          /\ pendingTxCache' = pendingTxCache
          /\ reconnectAttempts' = reconnectAttempts
          /\ socket' = socket
          /\ wsConnection' = wsConnection
          /\ timers' = timers
          /\ inflight' = inflight
          /\ polling' = polling ]_vars

\* a scan has gone through the chain to the premium provider while the
\* subscriber was polling and connected; another has not been continued
C27_Witness ==
    \E s, r \in Callers :
        /\ scans[s].pc = "done" /\ ~scans[s].hit
        /\ scans[s].result.dataSource = "blocknative"
        /\ scans[r].pc \notin {"idle", "done"}
        /\ pendingTxCache.isConnected
        /\ pendingTxCache.lastUpdate > 0

C29_SandwichConfidence ==
    (evalOut.done /\ ~evalOut.raised) =>
        LET s == evalOut.patterns.sandwich
            f == Len(s.frontRunners)
            b == Len(s.backRunners)
            ordered == /\ SumGas(s.frontRunners) > EvalUserGas * f
                       /\ EvalUserGas * b > SumGas(s.backRunners)
        IN  IF s.detected
            THEN s.conf * 1000 =
                   s.den * Min(600 + 100 * (f - 1) + 100 * (b - 1)
                                 + (IF ordered THEN 200 ELSE 0), 1000)
            ELSE s.conf = 0

MaxSample == 3

\* observations in milli-gwei: 0 stands for a record without a usable price
SampleValues == {0, 10000, 30125, 45000}

InitPercentile ==
    /\ env = [infura |-> TRUE, alchemy |-> FALSE, blocknative |-> FALSE]
    /\ now = StartTime
    /\ wsInitialized = FALSE
    /\ socket = "none"
    /\ wsConnection = FALSE
    /\ reconnectAttempts = 0
    /\ timers = 0
    /\ polling = FALSE
    /\ pendingTxCache = [ transactions |-> <<>>, lastUpdate |-> 0,
                          isConnected |-> FALSE, source |-> "none" ]
    /\ inflight = 0
    /\ consecFails = 0
    /\ budget = 0
    /\ cache = <<>>
    /\ scans = [s \in Callers |-> IdleScan]
    /\ \E sample \in UNION { [1..k -> SampleValues] : k \in 0..MaxSample } :
         evalIn = [done |-> TRUE, sample |-> sample]
    /\ evalOut = NoEvaluation

\* both estimators applied to evalIn.sample: the buffered prices of
\* fetchFromWebSocketCache and the base fees of getGasPricePercentiles
\* (blocks without a base fee are dropped before the call)
EstimatePercentiles ==
    /\ ~evalOut.done
    /\ "sample" \in DOMAIN evalIn
    /\ LET positive(gp) == gp > 0
           txs == [i \in 1..Len(evalIn.sample) |-> [gasPrice |-> evalIn.sample[i]]]
       IN  evalOut' = [ done |-> TRUE,
                        ws   |-> WsGasPercentiles(txs),
                        base |-> getGasPricePercentiles(
                                     SelectSeq(evalIn.sample, positive)) ]
    /\ UNCHANGED <<env, budget, now, wsInitialized, socket, wsConnection,
                   reconnectAttempts, timers, polling, pendingTxCache,
                   inflight, consecFails, evalIn>>
    /\ UNCHANGED aggVars

PercentileSpec == InitPercentile /\ [][EstimatePercentiles]_vars

\* C31 (as stated): for a non-empty sample of n observed prices both
\* estimators return the sorted sample's elements at indices floor(n*0.25),
\* floor(n*0.50), floor(n*0.75), floor(n*0.90); for an empty sample the
\* default quadruple 20/35/50/80.
C31_PercentilesAreSampleElements ==
    evalOut.done =>
      LET positive(gp) == gp > 0
          obs == SelectSeq(evalIn.sample, positive)
          n == Len(obs)
          below(v) == Cardinality({i \in 1..n : obs[i] < v})
          upTo(v) == Cardinality({i \in 1..n : obs[i] <= v})
          \* element at 0-based index k of the ascending arrangement
          elem(k) == CHOOSE v \in {obs[i] : i \in 1..n} :
                        below(v) <= k /\ k < upTo(v)
          quad == [ p25 |-> elem((n * 25) \div 100),
                    p50 |-> elem((n * 50) \div 100),
                    p75 |-> elem((n * 75) \div 100),
                    p90 |-> elem((n * 90) \div 100) ]
      IN  IF n = 0
          THEN evalOut.ws = DefaultPercentiles /\ evalOut.base = DefaultPercentiles
          ELSE evalOut.ws = quad /\ evalOut.base = quad

\* C31 (amended): with n the number of positive observations, the buffered
\* estimator returns the ascending sample's elements at indices
\* floor(n*0.25), floor(n*0.50), floor(n*0.75), floor(n*0.90) rounded to two
\* decimals, and the base-fee estimator returns those elements multiplied by
\* 1.1, 1.25, 1.5 and 2 and rounded to two decimals; the indices are within
\* bounds, the result does not depend on the input order, and a sample
\* without positive observations gives the defaults 20/35/50/80.
C31_PercentilesRoundedAndScaled ==
    evalOut.done =>
      LET positive(gp) == gp > 0
          obs == SelectSeq(evalIn.sample, positive)
          n == Len(obs)
          below(v) == Cardinality({i \in 1..n : obs[i] < v})
          upTo(v) == Cardinality({i \in 1..n : obs[i] <= v})
          elem(k) == CHOOSE v \in {obs[i] : i \in 1..n} :
                        below(v) <= k /\ k < upTo(v)
          idx == [ p25 |-> (n * 25) \div 100, p50 |-> (n * 50) \div 100,
                   p75 |-> (n * 75) \div 100, p90 |-> (n * 90) \div 100 ]
      IN  IF n = 0
          THEN evalOut.ws = DefaultPercentiles /\ evalOut.base = DefaultPercentiles
          ELSE /\ \A p \in DOMAIN idx : idx[p] \in 0..(n - 1)
               /\ evalOut.ws = [ p \in DOMAIN idx |-> ToFixed2(elem(idx[p])) ]
               /\ evalOut.base.p25 = MulFixed2(elem(idx.p25), 11, 10)
               /\ evalOut.base.p50 = MulFixed2(elem(idx.p50), 5, 4)
               /\ evalOut.base.p75 = MulFixed2(elem(idx.p75), 3, 2)
               /\ evalOut.base.p90 = MulFixed2(elem(idx.p90), 2, 1)

\* an unsorted sample of three distinct prices, one of them dropped by
\* neither estimator and one needing rounding
C31_Witness ==
    /\ evalOut.done
    /\ "sample" \in DOMAIN evalIn
    /\ evalIn.sample = <<45000, 30125, 10000>>
    /\ evalOut.ws = [p25 |-> 10000, p50 |-> 30130, p75 |-> 45000, p90 |-> 45000]
    /\ evalOut.base = [p25 |-> 11000, p50 |-> 37660, p75 |-> 67500, p90 |-> 90000]

\* ---------------------------------------------------------------------
\* The detectors run one by one, in any order, on shared inputs
\* ---------------------------------------------------------------------

\* detector calls made on one pair of inputs
MaxDetectorRuns == 3

\* (variant: the competitor list is put in descending gas order in place
\* before it is filtered)
ArrayAfterFilterSorted(arr) == SortSeq(arr, LAMBDA a, b : a.gasPrice > b.gasPrice)

\* competingTxs.filter(...) builds a new array: the receiver keeps its
\* elements and their order, and no detector assigns to a field of its
\* arguments
ArrayAfterFilter(arr) == arr

InitPurity ==
    /\ env = [infura |-> FALSE, alchemy |-> FALSE, blocknative |-> FALSE]
    /\ now = StartTime
    /\ wsInitialized = FALSE
    /\ socket = "none"
    /\ wsConnection = FALSE
    /\ reconnectAttempts = 0
    /\ timers = 0
    /\ polling = FALSE
    /\ pendingTxCache = InitPendingTxCache
    /\ inflight = 0
    /\ consecFails = 0
    /\ budget = 0
    /\ cache = <<>>
    /\ scans = [s \in Callers |-> IdleScan]
    /\ evalIn \in { [done |-> TRUE, mempoolData |-> m, userTx |-> u] :
                       m \in {x \in EvalSnapshots : x.pendingTxCount = 150},
                       u \in EvalTrades }
    /\ evalOut = [ done |-> FALSE,
                   given |-> evalIn,
                   runs |-> [d \in {"sandwich", "frontrun", "backrun",
                                    "copycat", "jit"} |-> 0],
                   results |-> [d \in {"sandwich", "frontrun", "backrun",
                                       "copycat", "jit"} |-> NotDetected] ]

\* one call of detector d on the shared snapshot and trade descriptor
RunDetector(d) ==
    /\ "runs" \in DOMAIN evalOut
    /\ evalOut.runs["sandwich"] + evalOut.runs["frontrun"]
         + evalOut.runs["backrun"] + evalOut.runs["copycat"]
         + evalOut.runs["jit"] < MaxDetectorRuns
    /\ LET m == evalIn.mempoolData
           u == evalIn.userTx
           result == CASE d = "sandwich" -> detectSandwichPattern(m, u)
                       [] d = "frontrun" -> detectFrontrunPattern(m, u)
                       [] d = "backrun"  -> detectBackrunPattern(m, u)
                       [] d = "copycat"  -> detectCopycatPattern(m, u)
                       [] d = "jit"      -> detectJITLiquidityPattern(m, u)
       IN  /\ evalOut' = [evalOut EXCEPT !.runs[d] = @ + 1,
                                         !.results[d] = result]
           /\ evalIn' = [evalIn EXCEPT !.mempoolData.competingTxs =
                                           ArrayAfterFilter(@)]
    /\ UNCHANGED <<env, budget, now, subVars, aggVars>>

PuritySpec ==
    InitPurity /\ [][\E d \in DOMAIN evalOut.runs : RunDetector(d)]_vars

C33_FrontRunAccompanies ==
    (evalOut.done /\ ~evalOut.raised /\ EvalUserGas > 0) =>
        LET u == EvalUserGas
            pair == <<evalOut.input.token_in, evalOut.input.token_out>>
            competitor(tx) == tx.gasPrice > u /\ isSameOrRelatedPair(tx.tokenPair, pair)
            frontRunners ==
                IF "frontRunners" \in DOMAIN evalOut.patterns.sandwich
                THEN evalOut.patterns.sandwich.frontRunners ELSE <<>>
        IN  /\ \A i \in 1..Len(frontRunners) : competitor(frontRunners[i])
            /\ \A i \in 1..Len(EvalCompeting) :
                  ( /\ EvalCompeting[i].tokenPair = pair
                    /\ EvalCompeting[i].gasPrice > u )
                  => competitor(EvalCompeting[i])
            /\ (evalOut.patterns.sandwich.detected \/ evalOut.patterns.copycat.detected)
                  => /\ evalOut.patterns.frontrun.detected
                     /\ evalOut.patterns.frontrun.conf > 0
                     /\ evalOut.aggregateRisk
                           >= RoundRatio(30 * evalOut.patterns.frontrun.conf,
                                         evalOut.patterns.frontrun.den)

\* a sandwich whose only front-runner pays less than 10% above the caller,
\* without a copycat
C33_Witness ==
    /\ evalOut.done
    /\ ~evalOut.raised
    /\ EvalUserGas > 0
    /\ evalOut.patterns.sandwich.detected
    /\ ~evalOut.patterns.copycat.detected
    /\ evalOut.patterns.frontrun.detected
    /\ \A i \in 1..Len(EvalCompeting) : 10 * EvalCompeting[i].gasPrice <= 11 * EvalUserGas

\* C34: no scan is classified "jit-liquidity": the JIT-liquidity detector's
\* confidence is exactly 0.6 whenever it fires (and 0 otherwise), the
\* classification requires a confidence strictly above 0.6, and the
\* fallback branches give no such label.
C34_NeverJitLiquidity ==
    (evalOut.done /\ ~evalOut.raised) =>
        /\ evalOut.patterns.jit.detected =>
              10 * evalOut.patterns.jit.conf = 6 * evalOut.patterns.jit.den
        /\ ~evalOut.patterns.jit.detected => evalOut.patterns.jit.conf = 0
        /\ evalOut.attack_type # "jit-liquidity"
        /\ evalOut.attack_type \in {"sandwich", "copycat-frontrun", "front-run",
                                    "back-run", "potential-sandwich", "none"}

\* an added-liquidity record is the only evidence: no other detector fires
\* and the label comes from the fallback
C34_Witness ==
    /\ evalOut.done
    /\ ~evalOut.raised
    /\ evalOut.patterns.jit.detected
    /\ ~evalOut.patterns.sandwich.detected
    /\ ~evalOut.patterns.copycat.detected
    /\ ~evalOut.patterns.frontrun.detected
    /\ ~evalOut.patterns.backrun.detected
    /\ evalOut.attack_type = "none"

C37_BaselineCachedAndServed ==
    /\ \A s \in Callers :
          (scans[s].pc = "done" /\ ~scans[s].hit) =>
              \E k \in 1..Len(cache) :
                  /\ cache[k].token_pair = scans[s].tokenPair
                  /\ cache[k].data = JsonStringify(scans[s].result)
    /\ \A i, j \in Callers :
          ( /\ i \in scans[j].prior
            /\ scans[i].tokenPair = scans[j].tokenPair
            /\ ~scans[i].hit
            /\ scans[i].result.dataSource = "simulated"
            /\ now - StartTime < CACHE_DURATION )
          => /\ scans[j].hit
             /\ scans[j].result = scans[i].result
             /\ scans[j].result.confidence = 50

\* C38: under every interleaving of two calls for the same pair each call
\* that returns has a complete snapshot; when both missed the cache each
\* ran the fallback chain and the cache holds an entry of its own for each,
\* and a cache read made after both writes returns, if it returns an entry
\* at all, the snapshot written last.
C38_ConcurrentCallsLastWriteWins ==
    /\ \A s \in Callers :
          scans[s].pc = "done" =>
              {"tokenPair", "gasPercentiles", "competingTxs", "dataSource",
               "confidence", "timestamp"} \subseteq DOMAIN scans[s].result
    /\ \A i, j \in Callers :
          ( /\ i # j
            /\ scans[i].pc = "done" /\ scans[j].pc = "done"
            /\ ~scans[i].hit /\ ~scans[j].hit
            /\ scans[i].tokenPair = scans[j].tokenPair )
          => LET pair == scans[i].tokenPair
                 rows == RowsOf(pair)
                 last == CHOOSE k \in rows : \A m \in rows : m <= k
             IN  /\ scans[i].tried # <<>> /\ scans[j].tried # <<>>
                 /\ Cardinality(rows) = 2
                 /\ {cache[k].data : k \in rows}
                       = {JsonStringify(scans[i].result),
                          JsonStringify(scans[j].result)}
                 /\ \A k \in CachedRows(pair) : cache[k].data = cache[last].data

\* C39: the subscription is started once: after a successful initialisation
\* a further initWebSocketMempoolService call opens no connection and
\* starts no poller; a socket is created only when there is none or the
\* former one has closed, after an initialisation only by the one pending
\* reconnect timer; and at most one reconnect timer is pending at any time,
\* never next to a socket that is connecting or open.
C39_SingleInstance ==
    /\ [](/\ timers <= 1
          /\ timers = 1 => socket = "closed")
    /\ [][ /\ (socket' = "connecting" /\ socket # "connecting") =>
                  /\ socket \in {"none", "closed"}
                  /\ wsInitialized => (timers = 1 /\ timers' = 0)
           /\ (polling' /\ ~polling) => ~wsInitialized
           /\ wsInitialized => wsInitialized' ]_vars

\* the second reconnect after two closes: the timer has fired and the one
\* socket is connecting again
C39_Witness ==
    /\ wsInitialized
    /\ socket = "connecting"
    /\ reconnectAttempts = 2
    /\ timers = 0
====
